---- MODULE Spec2Model ----
(***************************************************************************)
(* Verification model of kofuk/ipp-print: the PWG-Raster run-length codec  *)
(* (src/src/pwgraster.rs) and the IPP message codec (src/src/main.rs).     *)
(*                                                                         *)
(* Three specifications share the variables:                               *)
(*   SpecRow    one scanline through do_encode_row and the packet loop of  *)
(*              read_raster;                                               *)
(*   SpecImage  ImageEncoder::write_row called row after row;              *)
(*   SpecIpp    IPPRequest::write_to_stream and                            *)
(*              IPPResponse::read_from_stream on byte strings.             *)
(***************************************************************************)
EXTENDS Integers, Sequences, FiniteSets, TLC

VARIABLES
    pc,             \* position of the driver of the specification at hand
    row,            \* SpecRow: the scanline handed to do_encode_row
    comm,           \* SpecRow: the vector comm of do_encode_row (1-based)
    x,              \* SpecRow: the loop variable x of do_encode_row (1-based)
    packets,        \* SpecRow: the packets written so far, each [count, at, pixels]
    writer,         \* SpecRow: the bytes do_encode_row has written
    rd_pos,         \* SpecRow: read position in writer of read_raster (1-based)
    x_written,      \* SpecRow: x_written of read_raster
    line,           \* SpecRow: the pixels read_raster has put in its line
    width,          \* SpecImage: ImageEncoder.width
    height,         \* SpecImage: ImageEncoder.height
    prev_row,       \* SpecImage: ImageEncoder.prev_row (<<>> is None, <<r>> is Some(r))
    written_rows,   \* SpecImage: ImageEncoder.written_rows
    comm_rows,      \* SpecImage: ImageEncoder.comm_rows (u8)
    out,            \* SpecImage: the bytes the writer has received
    bands,          \* SpecImage: the <<repeat byte, scanline>> of each band written
    rows_in,        \* SpecImage: the rows the caller has supplied so far
    req,            \* SpecIpp: the IPPRequest being encoded
    msg,            \* SpecIpp: what the bytes on the wire were built from
    wire,           \* SpecIpp: the bytes on the wire
    resp            \* SpecIpp: result of IPPResponse::read_from_stream

rowVars == <<row, comm, x, packets, writer, rd_pos, x_written, line>>
imageVars ==
    <<width, height, prev_row, written_rows, comm_rows, out, bands, rows_in>>
ippVars == <<req, msg, wire, resp>>
vars == <<pc, rowVars, imageVars, ippVars>>

\* What an integer overflow does: a panic (debug build) or a wrap (release).
Builds == {"debug", "release"}

(***************************************************************************)
(* Bounds of the model.                                                    *)
(***************************************************************************)
\* Every scanline over Palette of length 0..MaxShort is an input of SpecRow.
MaxShort == 5
\* Striped scanlines (see PatternRow) of length 1..MaxLong are inputs too.
MaxLong == 131
\* SpecImage: images are 0..MaxWidth pixels wide and 0..MaxHeight rows high.
MaxWidth == 2
MaxHeight == 4
\* SpecIpp: a group of a request holds up to MaxReqAttrs attributes, a group
\* received up to MaxItems well-formed attributes or MaxTokens raw ones.
MaxReqAttrs == 2
MaxItems == 3
MaxTokens == 4
\* SpecAttr: names and string values are 0..MaxStrLen bytes long, or as long
\* as the lengths around the u16 limit (see WrapLens).
MaxStrLen == 3

(***************************************************************************)
(* Integer helpers.                                                        *)
(***************************************************************************)
\* `v as u8` for v in -256..255.
AsU8(v) == (v + 256) % 256

\* `b as i8` for a byte b.
AsI8(b) == IF b >= 128 THEN b - 256 ELSE b

Min(a, b) == IF a < b THEN a ELSE b

\* The bytes of a sequence of pixels, r g b of each in turn.
PixelBytes(ps) ==
    [i \in 1..(3 * Len(ps)) |-> ps[((i - 1) \div 3) + 1][((i - 1) % 3) + 1]]

(***************************************************************************)
(* SrgbColor: a pixel is <<r, g, b>>.                                      *)
(***************************************************************************)
Red == <<255, 0, 0>>
Blue == <<0, 0, 255>>
Palette == {Red, Blue}

(***************************************************************************)
(* ImageEncoder::do_encode_row                                             *)
(***************************************************************************)
\* CommStep with a run capped one pixel late (`comm[x + 1] == 128`).  The
\* run packets of C12 must not hold for it.
CommStepRunLate(same, next) ==
    IF same
    THEN IF next < 0 THEN 1
         ELSE IF next = 128 THEN 0
         ELSE next + 1
    ELSE IF next > 0 THEN 0
         ELSE IF next <= -128 THEN 0
         ELSE next - 1

\* CommStep with a literal capped one pixel late (`comm[x + 1] < -128`).
\* The literal packets of C13 must not hold for it.
CommStepLiteralLate(same, next) ==
    IF same
    THEN IF next < 0 THEN 1
         ELSE IF next = 127 THEN 0
         ELSE next + 1
    ELSE IF next > 0 THEN 0
         ELSE IF next < -128 THEN 0
         ELSE next - 1

\* The value given to comm[x] in the right-to-left scan, from comm[x + 1]
\* and from whether row[x + 1] == row[x].
CommStep(same, next) ==
    IF same
    THEN IF next < 0 THEN 1
         ELSE IF next = 127 THEN 0
         ELSE next + 1
    ELSE IF next > 0 THEN 0
         ELSE IF next <= -128 THEN 0
         ELSE next - 1

\* `vec![0i16; row.len()]`
CommInit(r) == [i \in 1..Len(r) |-> 0]

\* One turn of `for x in (0..row.len() - 1).rev()`; i is x + 1 (1-based).
ScanIter(r, c, i) == [c EXCEPT ![i] = CommStep(r[i + 1] = r[i], c[i + 1])]

\* PacketAdvance without the `+ 1` of line 359: a literal packet of n pixels
\* moves x by n - 1.  The tiling of C4 must not hold for it.
PacketAdvanceShort(c) == IF c < 0 THEN -c ELSE c + 1

\* The pixels a packet with count c carries, and by how much x advances.
PacketLen(c) == IF c < 0 THEN -c + 1 ELSE 1
PacketAdvance(c) == IF c < 0 THEN -c + 1 ELSE c + 1

\* One turn of `while x < row.len()`; i is x + 1 (1-based). oob says that
\* row[x + i] was read past the end of the row (a panic in Rust).
EmitIter(r, c, i) ==
    LET n == PacketLen(c[i])
    IN  IF i + n - 1 > Len(r)
        THEN [oob |-> TRUE, pkt |-> <<>>, next |-> i]
        ELSE [oob |-> FALSE,
              pkt |-> [count |-> c[i], at |-> i, pixels |-> SubSeq(r, i, i + n - 1)],
              next |-> i + PacketAdvance(c[i])]

\* PacketBytes with a run packet written with every pixel it stands for.
\* The length bound of C11 must not hold for it.
PacketBytesRunExpanded(p) ==
    <<AsU8(p.count)>>
        \o PixelBytes(IF p.count < 0 THEN p.pixels
                      ELSE [i \in 1..(p.count + 1) |-> p.pixels[1]])

\* The bytes of one packet: `comm[x] as u8`, then r, g, b of each pixel.
PacketBytes(p) == <<AsU8(p.count)>> \o PixelBytes(p.pixels)

\* The two loops run to their end (for rows short enough to recurse on).
RECURSIVE Scan(_, _, _)
Scan(r, c, i) == IF i < 1 THEN c ELSE Scan(r, ScanIter(r, c, i), i - 1)

RECURSIVE Emit(_, _, _)
Emit(r, c, i) ==
    IF i > Len(r) THEN [panic |-> FALSE, bytes |-> <<>>]
    ELSE LET e == EmitIter(r, c, i)
         IN  IF e.oob THEN [panic |-> TRUE, bytes |-> <<>>]
             ELSE LET rest == Emit(r, c, e.next)
                  IN  [panic |-> rest.panic,
                       bytes |-> PacketBytes(e.pkt) \o rest.bytes]

\* do_encode_row(writer, row): panics on an empty row or on an index out of
\* bounds; otherwise the bytes written.
do_encode_row(r) ==
    IF r = <<>> THEN [panic |-> TRUE, bytes |-> <<>>]
    ELSE Emit(r, Scan(r, CommInit(r), Len(r) - 1), 1)

(***************************************************************************)
(* read_raster: the packet loop that decodes one scanline of w pixels (the *)
(* source hard-codes w = 2480, the width of the default header).           *)
(***************************************************************************)
\* `-run_len` on an i8: -(-128) overflows, which panics in a debug build and
\* wraps to -128 in a release build.
NegI8(v, b) ==
    IF v = -128
    THEN IF b = "debug" THEN [panic |-> TRUE, val |-> 0]
         ELSE [panic |-> FALSE, val |-> -128]
    ELSE [panic |-> FALSE, val |-> -v]

\* The number of turns of `for _ in 0..=run_len`.
RangeInclusiveLen(run_len) == IF run_len < 0 THEN 0 ELSE run_len + 1

\* One turn of the inner `loop` of read_raster, reading at byte pos (1-based)
\* with xw pixels in the line: [panic, pixels pushed, pos after].  A read
\* past the end of the input panics (read_exact fails).
DecodeIter(bytes, pos, xw, w, b) ==
    IF pos > Len(bytes) THEN [panic |-> TRUE, pixels |-> <<>>, pos |-> pos]
    ELSE
    LET run_len == AsI8(bytes[pos])
    IN  IF run_len >= 0
        THEN IF pos + 3 > Len(bytes)
             THEN [panic |-> TRUE, pixels |-> <<>>, pos |-> pos + 1]
             ELSE LET color == SubSeq(bytes, pos + 1, pos + 3)
                      k == Min(RangeInclusiveLen(run_len), w - xw)
                  IN  [panic |-> FALSE, pixels |-> [i \in 1..k |-> color],
                       pos |-> pos + 4]
        ELSE LET neg == NegI8(run_len, b)
                 k == Min(RangeInclusiveLen(neg.val), w - xw)
                 avail == (Len(bytes) - pos) \div 3
                 got == Min(k, avail)
             IN  IF neg.panic
                 THEN [panic |-> TRUE, pixels |-> <<>>, pos |-> pos + 1]
                 ELSE [panic |-> avail < k,
                       pixels |-> [i \in 1..got |->
                                     SubSeq(bytes, pos + 3 * i - 2, pos + 3 * i)],
                       pos |-> pos + 1 + 3 * got]

(***************************************************************************)
(* Inputs of SpecRow.                                                      *)
(***************************************************************************)
RECURSIVE RowsOfLen(_)
RowsOfLen(n) ==
    IF n = 0 THEN {<<>>}
    ELSE {<<p>> \o r : p \in Palette, r \in RowsOfLen(n - 1)}

ShortRows == UNION {RowsOfLen(n) : n \in 0..MaxShort}

\* A striped scanline of n pixels: stripes of k pixels, Red first.
PatternRow(n, k) ==
    [i \in 1..n |-> IF ((i - 1) \div k) % 2 = 0 THEN Red ELSE Blue]

StripeWidths == {1, 2, 127, 128, 129}

\* Lengths past MaxLong: 200 pixels as in the tests, and one pixel more than
\* two full run packets (2 * 128) and than two full literal packets (2 * 129).
TestLens == {200, 257, 259}

LongLens == (1..MaxLong) \cup TestLens

\* The striped scanlines, and the scanlines of one colour.
LongRows ==
    {PatternRow(n, k) : n \in LongLens, k \in StripeWidths}
        \cup {PatternRow(n, n) : n \in LongLens}

RowInputs == ShortRows \cup LongRows

(***************************************************************************)
(* SpecRow: one scanline through do_encode_row, then through the packet    *)
(* loop of read_raster run with the row's width.                           *)
(***************************************************************************)
IdleRow ==
    /\ row = <<>> /\ comm = <<>> /\ x = 0 /\ packets = <<>> /\ writer = <<>>
    /\ rd_pos = 0 /\ x_written = 0 /\ line = <<>>

IdleImage ==
    /\ width = 0 /\ height = 0 /\ prev_row = <<>> /\ written_rows = 0
    /\ comm_rows = 0 /\ out = <<>> /\ bands = <<>> /\ rows_in = <<>>

IdleIpp == req = <<>> /\ msg = <<>> /\ wire = <<>> /\ resp = <<>>

InitRow ==
    /\ pc = "start"
    /\ row \in RowInputs
    /\ comm = <<>> /\ x = 0 /\ packets = <<>> /\ writer = <<>>
    /\ rd_pos = 1 /\ x_written = 0 /\ line = <<>>
    /\ IdleImage
    /\ IdleIpp

\* do_encode_row, lines 322-326: the emptiness check and the allocation of
\* comm; x is set for the first turn of the loop that runs next.
EncodeStart ==
    /\ pc = "start"
    /\ IF row = <<>>
       THEN pc' = "encode_panic" /\ UNCHANGED <<comm, x>>
       ELSE /\ comm' = CommInit(row)
            /\ x' = IF Len(row) - 1 >= 1 THEN Len(row) - 1 ELSE 1
            /\ pc' = IF Len(row) - 1 >= 1 THEN "scan" ELSE "emit"
    /\ UNCHANGED <<row, packets, writer, rd_pos, x_written, line, imageVars, ippVars>>

\* One turn of the scan loop, lines 327-345; after the last one x restarts
\* at the first pixel (`let mut x = 0`).
ScanStep ==
    /\ pc = "scan"
    /\ comm' = ScanIter(row, comm, x)
    /\ x' = IF x - 1 >= 1 THEN x - 1 ELSE 1
    /\ pc' = IF x - 1 >= 1 THEN "scan" ELSE "emit"
    /\ UNCHANGED <<row, packets, writer, rd_pos, x_written, line, imageVars, ippVars>>

\* One turn of the write loop, lines 350-365.
EmitStep ==
    /\ pc = "emit"
    /\ LET e == EmitIter(row, comm, x)
       IN  IF e.oob
           THEN pc' = "encode_panic" /\ UNCHANGED <<x, packets, writer>>
           ELSE /\ packets' = Append(packets, e.pkt)
                /\ writer' = writer \o PacketBytes(e.pkt)
                /\ x' = e.next
                /\ pc' = IF e.next > Len(row) THEN "decode" ELSE "emit"
    /\ UNCHANGED <<row, comm, rd_pos, x_written, line, imageVars, ippVars>>

\* One turn of the packet loop of read_raster (lines 801-845) on the bytes
\* written, in either build.
DecodeStep ==
    /\ pc = "decode"
    /\ \E b \in Builds :
         LET d == DecodeIter(writer, rd_pos, x_written, Len(row), b)
         IN  /\ line' = line \o d.pixels
             /\ x_written' = x_written + Len(d.pixels)
             /\ rd_pos' = d.pos
             /\ pc' = IF d.panic THEN "decode_panic"
                      ELSE IF x_written + Len(d.pixels) >= Len(row) THEN "done"
                      ELSE "decode"
    /\ UNCHANGED <<row, comm, x, packets, writer, imageVars, ippVars>>

NextRow == EncodeStart \/ ScanStep \/ EmitStep \/ DecodeStep

SpecRow == InitRow /\ [][NextRow]_vars

\* do_encode_row has returned Ok.
EncodeReturned == pc \in {"decode", "done", "decode_panic"}

(***************************************************************************)
(* SpecImage: ImageEncoder::new(width, height), then write_row called with *)
(* one row after the other.                                                *)
(***************************************************************************)
\* `self.comm_rows += 1` on a u8: 255 + 1 overflows, which panics in a debug
\* build and wraps to 0 in a release build.
IncU8(v, b) ==
    IF v = 255
    THEN IF b = "debug" THEN [panic |-> TRUE, val |-> v]
         ELSE [panic |-> FALSE, val |-> 0]
    ELSE [panic |-> FALSE, val |-> v + 1]

\* The rows a caller may hand to write_row.
RowArgs == UNION {RowsOfLen(n) : n \in 0..MaxWidth}

\* An image tall enough for comm_rows, a u8, to pass 127 and then 255, one
\* pixel wide.
TallHeights == {259}
TallRows == {<<Red>>, <<Blue>>}

\* The numbers of rows written after which the rows of a tall image may
\* change: a stretch of identical rows ends after 128, 129 or 257 rows.
ChangeAt == {128, 129, 257}

\* The rows a caller may hand to the next write_row: any row for a small
\* image; for a tall one, the row before, or another one at ChangeAt.
RowsOffered ==
    IF height \in TallHeights
    THEN {r \in TallRows :
             prev_row = <<>> \/ r = prev_row[1] \/ written_rows \in ChangeAt}
    ELSE RowArgs

InitImage ==
    /\ pc = "run"
    /\ \/ width \in 0..MaxWidth /\ height \in 0..MaxHeight
       \/ width = 1 /\ height \in TallHeights
    /\ prev_row = <<>>
    /\ written_rows = 0
    /\ comm_rows = 0
    /\ out = <<>>
    /\ bands = <<>>
    /\ rows_in = <<>>
    /\ IdleRow
    /\ IdleIpp

\* write_row, lines 378-383: a row of another width, or a row too many.
WriteRowPanic(r) ==
    /\ pc = "run"
    /\ UNCHANGED <<rowVars, ippVars>>
    /\ Len(r) # width \/ written_rows >= height
    /\ pc' = "panic"
    /\ UNCHANGED imageVars

\* write_row, lines 387-391: the first row is only remembered.
WriteRowFirst(r) ==
    /\ pc = "run"
    /\ UNCHANGED <<rowVars, ippVars>>
    /\ Len(r) = width /\ written_rows < height
    /\ prev_row = <<>>
    /\ written_rows' = written_rows + 1
    /\ prev_row' = <<r>>
    /\ rows_in' = Append(rows_in, r)
    /\ UNCHANGED <<pc, width, height, comm_rows, out, bands>>

\* write_row, lines 395-399: a row equal to the one before, not the last.
WriteRowSame(r) ==
    /\ pc = "run"
    /\ UNCHANGED <<rowVars, ippVars>>
    /\ Len(r) = width /\ written_rows < height
    /\ prev_row # <<>>
    /\ written_rows + 1 # height /\ prev_row[1] = r
    /\ \E b \in Builds :
         LET inc == IncU8(comm_rows, b)
         IN  IF inc.panic
             THEN pc' = "panic" /\ UNCHANGED imageVars
             ELSE /\ comm_rows' = inc.val
                  /\ written_rows' = written_rows + 1
                  /\ rows_in' = Append(rows_in, r)
                  /\ UNCHANGED <<pc, width, height, prev_row, out, bands>>

\* write_row, lines 403-412: the band of the row before is written, and the
\* row given becomes the row before.
WriteRowFlush(r) ==
    /\ pc = "run"
    /\ UNCHANGED <<rowVars, ippVars>>
    /\ Len(r) = width /\ written_rows < height
    /\ prev_row # <<>>
    /\ ~(written_rows + 1 # height /\ prev_row[1] = r)
    /\ LET enc == do_encode_row(prev_row[1])
       IN  IF enc.panic
           THEN /\ pc' = "panic"
                /\ prev_row' = <<r>>
                /\ out' = out \o <<comm_rows>>
                /\ UNCHANGED <<width, height, written_rows, comm_rows, bands, rows_in>>
           ELSE /\ prev_row' = <<r>>
                /\ out' = out \o <<comm_rows>> \o enc.bytes
                /\ bands' = Append(bands, <<comm_rows, prev_row[1]>>)
                /\ comm_rows' = 0
                /\ written_rows' = written_rows + 1
                /\ rows_in' = Append(rows_in, r)
                /\ UNCHANGED <<pc, width, height>>

\* write_row(writer, row): one of the four ways through it.
NextImage ==
    \E r \in RowsOffered :
        \/ WriteRowPanic(r)
        \/ WriteRowFirst(r)
        \/ WriteRowSame(r)
        \/ WriteRowFlush(r)

SpecImage == InitImage /\ [][NextImage]_vars

(***************************************************************************)
(* IPP: tags, status codes and the big-endian integer fields.              *)
(***************************************************************************)
DelimiterTags ==
    {"OperationAttributesTag", "JobAttributesTag", "EndOfAttributesTag",
     "PrinterAttributesTag", "UnsupportedAttributesTag"}

\* The value tags whose value is a String read with String::from_utf8.
StringTags ==
    {"OctetStringUnspecified", "TextWithoutLanguage", "NameWithoutLanguage",
     "Keyword", "Uri", "UriScheme", "Charset", "NaturalLanguage",
     "MimeMediaType", "MemberAttrName"}

ValueTags ==
    {"Unsupported", "Unknown", "NoValue", "Integer", "Boolean", "Enum",
     "DateTime", "Resolution", "RangeOfInteger", "BegCollection",
     "TextWithLanguage", "NameWithLanguage", "EndCollection"} \cup StringTags

\* enum DelimiterOrValueTag: the discriminant of each variant.
TagByte(t) ==
    CASE t = "OperationAttributesTag" -> 1
      [] t = "JobAttributesTag" -> 2
      [] t = "EndOfAttributesTag" -> 3
      [] t = "PrinterAttributesTag" -> 4
      [] t = "UnsupportedAttributesTag" -> 5
      [] t = "Unsupported" -> 16
      [] t = "Unknown" -> 18
      [] t = "NoValue" -> 19
      [] t = "Integer" -> 33
      [] t = "Boolean" -> 34
      [] t = "Enum" -> 35
      [] t = "OctetStringUnspecified" -> 48
      [] t = "DateTime" -> 49
      [] t = "Resolution" -> 50
      [] t = "RangeOfInteger" -> 51
      [] t = "BegCollection" -> 52
      [] t = "TextWithLanguage" -> 53
      [] t = "NameWithLanguage" -> 54
      [] t = "EndCollection" -> 55
      [] t = "TextWithoutLanguage" -> 65
      [] t = "NameWithoutLanguage" -> 66
      [] t = "Keyword" -> 68
      [] t = "Uri" -> 69
      [] t = "UriScheme" -> 70
      [] t = "Charset" -> 71
      [] t = "NaturalLanguage" -> 72
      [] t = "MimeMediaType" -> 73
      [] t = "MemberAttrName" -> 74

\* enum PrinterOperation: the discriminants.
PrinterOperations == (2..14) \cup {16, 17, 18}

\* enum StatusCode: the discriminants as written in the source (0x045 and
\* 0x04012 included).
StatusCodes ==
    {0, 1, 2} \cup (1024..1028) \cup {69} \cup (1030..1041) \cup {16402}
        \cup (1280..1289)

\* u16::to_be_bytes / i16::to_be_bytes of a value in 0..65535.
U16BE(n) == <<(n \div 256) % 256, n % 256>>

\* `len as u16`
AsU16(n) == n % 65536

\* i16::from_be_bytes
I16FromBE(hi, lo) ==
    IF hi >= 128 THEN (hi - 256) * 256 + lo ELSE hi * 256 + lo

\* i32::to_be_bytes
I32BE(v) ==
    LET u == IF v < 0 THEN (v + 2147483647) + 1 ELSE v
    IN  <<(u \div 16777216) + (IF v < 0 THEN 128 ELSE 0),
          (u \div 65536) % 256, (u \div 256) % 256, u % 256>>

\* i32::from_be_bytes
I32FromBE(b) ==
    LET low == (b[1] % 128) * 16777216 + b[2] * 65536 + b[3] * 256 + b[4]
    IN  IF b[1] >= 128 THEN (low - 2147483647) - 1 ELSE low

\* String::from_utf8 succeeds; the model's strings are ASCII, and no other
\* byte of its inputs (0x80, 0xFC, 0xFE, 0xFF) begins a UTF-8 sequence.
Utf8Valid(bytes) == \A i \in 1..Len(bytes) : bytes[i] < 128

(***************************************************************************)
(* AttributeValue: <<the variant, its payload>>.  The payload              *)
(* is a byte string for Unsupported, Unknown and the String variants, an   *)
(* integer for Integer and Enum, a BOOLEAN for Boolean, <<start, end>> for *)
(* RangeOfInteger, <<lang, string>> for the WithLanguage variants, the     *)
(* fields in order for Resolution and DateTime, a function from member     *)
(* names to values for CollectionAttribute, a sequence of values for       *)
(* VectorAttribute, and <<>> for the variants without payload.             *)
(***************************************************************************)
Val(k, p) == <<k, p>>
Kind(val) == val[1]
Payload(val) == val[2]

(***************************************************************************)
(* IPPRequest::write_to_stream                                             *)
(***************************************************************************)
\* IPPRequest::write_str_and_len
write_str_and_len(val) == U16BE(AsU16(Len(val))) \o val

\* StringWithLanguage::byte_len and ::write_to_stream
StringWithLanguage_byte_len(s) == AsU16(2 + Len(s[1]) + 2 + Len(s[2]))

StringWithLanguage_write(s) ==
    U16BE(AsU16(Len(s[1]))) \o s[1] \o U16BE(AsU16(Len(s[2]))) \o s[2]

\* Resolution::write_to_stream; the payload is <<cross_feed, feed, units>>.
Resolution_write(r) == I32BE(r[1]) \o I32BE(r[2]) \o <<AsU8(r[3])>>

\* DateTime::write_to_stream; the payload is <<year, month, day, hour,
\* minutes, seconds, deci_seconds, direction_from_utc, hours_from_utc,
\* minutes_from_utc>>.
DateTime_write(d) == U16BE(d[1]) \o SubSeq(d, 2, 10)

\* The value-length field and the value bytes one arm of the match in
\* write_attribute_group writes after the tag and the name.
ValueField(val) ==
    CASE Kind(val) \in {"Unsupported", "Unknown"} ->
            U16BE(AsU16(Len(Payload(val)))) \o Payload(val)
      [] Kind(val) \in {"NoValue", "BegCollection", "EndCollection"} -> U16BE(0)
      [] Kind(val) \in {"Integer", "Enum"} -> U16BE(4) \o I32BE(Payload(val))
      [] Kind(val) = "Boolean" -> U16BE(1) \o <<IF Payload(val) THEN 1 ELSE 0>>
      [] Kind(val) \in StringTags -> write_str_and_len(Payload(val))
      [] Kind(val) = "DateTime" -> U16BE(11) \o DateTime_write(Payload(val))
      [] Kind(val) = "Resolution" -> U16BE(9) \o Resolution_write(Payload(val))
      [] Kind(val) = "RangeOfInteger" ->
            U16BE(8) \o I32BE(Payload(val)[1]) \o I32BE(Payload(val)[2])
      [] Kind(val) \in {"TextWithLanguage", "NameWithLanguage"} ->
            U16BE(StringWithLanguage_byte_len(Payload(val)))
                \o StringWithLanguage_write(Payload(val))

\* One turn of `for attr in &group.1`: the bytes written for the attribute
\* (name, val).  The arms for CollectionAttribute and VectorAttribute are
\* `=> ()`: they write nothing.
WriteAttribute(name, val) ==
    IF Kind(val) \in {"CollectionAttribute", "VectorAttribute"} THEN <<>>
    ELSE <<TagByte(Kind(val))>> \o write_str_and_len(name) \o ValueField(val)

RECURSIVE WriteAttributes(_)
WriteAttributes(as) ==
    IF as = <<>> THEN <<>>
    ELSE WriteAttribute(Head(as)[1], Head(as)[2]) \o WriteAttributes(Tail(as))

\* IPPRequest::write_attribute_group: for each group its tag byte, then its
\* attributes.  A group is <<tag, attributes>>, an attribute <<name, value>>.
RECURSIVE write_attribute_group(_)
write_attribute_group(gs) ==
    IF gs = <<>> THEN <<>>
    ELSE <<TagByte(Head(gs)[1])>> \o WriteAttributes(Head(gs)[2])
            \o write_attribute_group(Tail(gs))

\* The 8 bytes that open a request.
RequestHeader(r) ==
    <<AsU8(r.version_major), AsU8(r.version_minor)>>
        \o U16BE(r.operation_id) \o I32BE(r.request_id)

\* IPPRequest::write_to_stream
write_to_stream(r) ==
    RequestHeader(r) \o write_attribute_group(r.attrs) \o r.data

(***************************************************************************)
(* IPPResponse::read_from_stream.  A result is [ok |-> TRUE, ...] for      *)
(* Ok(..) and [ok |-> FALSE, err |-> e] otherwise, where e is "IOError",   *)
(* "ProtocolError", "ValueFormatError" or "panic" (the process aborts).    *)
(***************************************************************************)
Err(e) == [ok |-> FALSE, err |-> e]

\* A usize that came from a cast of a negative i16 is far larger than any
\* buffer: the model keeps it as the negative number v, standing for
\* 2^64 + v.  The sum of two such values, and whether it overflowed.
UAdd(a, b) ==
    [ovf |-> (a < 0 /\ b < 0) \/ ((a < 0 \/ b < 0) /\ a + b >= 0),
     val |-> a + b]

\* `len < n` for a usize n in that representation.
ULess(len, n) == n < 0 \/ len < n

\* StringWithLanguage::parse_buffer.  An overflow of the usize sums panics
\* in a debug build and wraps in a release build; an index or a slice out
\* of bounds and the unwrap of invalid UTF-8 panic in both.  The operators
\* below are its statements from the last to the first, each taking the
\* sums computed before it: s1 is 2 + lang_len, s2 is s1 + 2, s3 is
\* s2 + str_len.
ParseBufferFields(lang, string) ==
    IF ~Utf8Valid(lang) \/ ~Utf8Valid(string) THEN Err("panic")
    ELSE [ok |-> TRUE, value |-> <<lang, string>>]

ParseBufferString(buf, s1, s2, s3, b) ==
    IF s3.ovf /\ b = "debug" THEN Err("panic")
    ELSE IF ULess(Len(buf), s3.val) THEN Err("ValueFormatError")
    \* buf[2..(2 + lang_len)] and buf[(2 + lang_len + 2)..(.. + str_len)]
    ELSE IF 2 > s1.val \/ s2.val > s3.val THEN Err("panic")
    ELSE ParseBufferFields(SubSeq(buf, 3, s1.val), SubSeq(buf, s2.val + 1, s3.val))

ParseBufferLang(buf, s1, s2, b) ==
    IF (s1.ovf \/ s2.ovf) /\ b = "debug" THEN Err("panic")
    ELSE IF ULess(Len(buf), s2.val) THEN Err("ValueFormatError")
    \* buf[2 + lang_len] and buf[2 + lang_len + 1]
    ELSE IF s1.val < 0 \/ s1.val + 1 >= Len(buf) THEN Err("panic")
    ELSE ParseBufferString(buf, s1, s2,
            UAdd(s2.val, I16FromBE(buf[s1.val + 1], buf[s1.val + 2])), b)

ParseBufferSums(buf, s1, b) == ParseBufferLang(buf, s1, UAdd(s1.val, 2), b)

StringWithLanguage_parse_buffer(buf, b) ==
    IF Len(buf) < 2 THEN Err("ValueFormatError")
    ELSE ParseBufferSums(buf, UAdd(2, I16FromBE(buf[1], buf[2])), b)

\* Resolution::parse_buffer
Resolution_parse_buffer(buf) ==
    IF Len(buf) # 9 THEN Err("ValueFormatError")
    ELSE [ok |-> TRUE,
          value |-> <<I32FromBE(SubSeq(buf, 1, 4)), I32FromBE(SubSeq(buf, 5, 8)),
                      AsI8(buf[9])>>]

\* DateTime::parse_buffer
DateTime_parse_buffer(buf) ==
    IF Len(buf) # 11 THEN Err("ValueFormatError")
    ELSE [ok |-> TRUE, value |-> <<buf[1] * 256 + buf[2]>> \o SubSeq(buf, 3, 11)]

\* `AttributeValue::X(T::parse_buffer(&buf)?)`: the error, or the parsed
\* payload wrapped in the variant.
Wrap(value_type, r) ==
    IF r.ok THEN [ok |-> TRUE, value |-> Val(value_type, r.value)] ELSE r

\* IPPResponse::decode_attribute_value
decode_attribute_value(value_type, buf, b) ==
    CASE value_type \in {"Unsupported", "Unknown"} ->
            [ok |-> TRUE, value |-> Val(value_type, buf)]
      [] value_type \in {"NoValue", "BegCollection", "EndCollection"} ->
            IF buf = <<>> THEN [ok |-> TRUE, value |-> Val(value_type, <<>>)]
            ELSE Err("ProtocolError")
      [] value_type \in {"Integer", "Enum"} ->
            IF Len(buf) = 4
            THEN [ok |-> TRUE, value |-> Val(value_type, I32FromBE(buf))]
            ELSE Err("ProtocolError")
      [] value_type = "Boolean" ->
            IF Len(buf) = 1
            THEN [ok |-> TRUE, value |-> Val(value_type, buf[1] = 1)]
            ELSE Err("ProtocolError")
      [] value_type \in StringTags ->
            IF Utf8Valid(buf) THEN [ok |-> TRUE, value |-> Val(value_type, buf)]
            ELSE Err("ValueFormatError")
      [] value_type = "DateTime" -> Wrap(value_type, DateTime_parse_buffer(buf))
      [] value_type = "Resolution" -> Wrap(value_type, Resolution_parse_buffer(buf))
      [] value_type = "RangeOfInteger" ->
            IF Len(buf) # 8 THEN Err("ValueFormatError")
            ELSE [ok |-> TRUE,
                  value |-> Val(value_type, <<I32FromBE(SubSeq(buf, 1, 4)),
                                              I32FromBE(SubSeq(buf, 5, 8))>>)]
      [] value_type \in {"TextWithLanguage", "NameWithLanguage"} ->
            Wrap(value_type, StringWithLanguage_parse_buffer(buf, b))
      [] OTHER -> Err("ProtocolError")

\* A 2-byte length and the bytes it announces, read at pos (1-based):
\* `vec![0u8; len as usize]` panics (capacity overflow) for a negative i16,
\* read_exact fails when the input is too short.
ReadLenAndBytes(bytes, pos) ==
    IF pos + 1 > Len(bytes) THEN Err("IOError")
    ELSE LET n == I16FromBE(bytes[pos], bytes[pos + 1])
         IN  IF n < 0 THEN Err("panic")
             ELSE IF pos + 1 + n > Len(bytes) THEN Err("IOError")
             ELSE [ok |-> TRUE, buf |-> SubSeq(bytes, pos + 2, pos + 1 + n),
                   pos |-> pos + 2 + n]

\* IPPResponse::parse_attribute, its statements from the last to the first:
\* nm is the name read, vl the value bytes read, dv the value decoded.
AttributeDecoded(nm, vl, dv) ==
    IF ~dv.ok THEN dv
    ELSE [ok |-> TRUE, name |-> nm.buf, value |-> dv.value, pos |-> vl.pos]

AttributeValueRead(nm, vl, value_type, b) ==
    IF ~vl.ok THEN vl
    ELSE AttributeDecoded(nm, vl, decode_attribute_value(value_type, vl.buf, b))

AttributeNameRead(bytes, nm, value_type, b) ==
    IF ~nm.ok THEN nm
    ELSE IF ~Utf8Valid(nm.buf) THEN Err("ValueFormatError")
    ELSE AttributeValueRead(nm, ReadLenAndBytes(bytes, nm.pos), value_type, b)

parse_attribute(bytes, pos, value_type, b) ==
    AttributeNameRead(bytes, ReadLenAndBytes(bytes, pos), value_type, b)

\* from_u8 with a byte that is no tag read as Unsupported.  The tags of C16
\* must not hold for it.
TagFromByteLenient(byte) ==
    IF \E t \in DelimiterTags \cup ValueTags : TagByte(t) = byte
    THEN <<CHOOSE t \in DelimiterTags \cup ValueTags : TagByte(t) = byte>>
    ELSE <<"Unsupported">>

\* FromPrimitive::from_u8 for DelimiterOrValueTag
TagFromByte(byte) ==
    IF \E t \in DelimiterTags \cup ValueTags : TagByte(t) = byte
    THEN <<CHOOSE t \in DelimiterTags \cup ValueTags : TagByte(t) = byte>>
    ELSE <<>>

\* IPPResponse::parse_tag
parse_tag(bytes, pos) ==
    IF pos > Len(bytes) THEN Err("IOError")
    ELSE LET t == TagFromByte(bytes[pos])
         IN  IF t = <<>> THEN Err("ProtocolError")
             ELSE [ok |-> TRUE, tag |-> t[1], pos |-> pos + 1]

\* An insert that loses the members inserted before it.  The map of C6
\* must not hold for it.
MapInsertAlone(map, key, value) == [k \in {key} |-> value]

\* HashMap::insert
MapInsert(map, key, value) ==
    [k \in (DOMAIN map) \cup {key} |-> IF k = key THEN value ELSE map[k]]

\* IPPResponse::parse_collection.  CollectionLoop is the top of its loop
\* with the members in map; the operators before it are the statements of
\* one turn, each taking what the statement before it returned.
RECURSIVE CollectionLoop(_, _, _, _)

\* `map.insert(attr_name, ..)` with the value a of a member, and the next turn
MemberInserted(bytes, map, attr_name, a, b) ==
    IF ~a.ok THEN a
    ELSE CollectionLoop(bytes, a.pos, MapInsert(map, attr_name, a.value), b)

\* `let coll = Self::parse_collection(reader)?` after the BegCollection beg
MemberCollection(bytes, map, attr_name, beg, b) ==
    IF ~beg.ok THEN beg
    ELSE MemberInserted(bytes, map, attr_name,
                        CollectionLoop(bytes, beg.pos, <<>>, b), b)

\* `match Self::parse_tag(reader)?` on the tag t2 of a member's value
MemberValue(bytes, map, attr_name, t2, b) ==
    IF ~t2.ok THEN t2
    ELSE IF t2.tag \in {"OperationAttributesTag", "JobAttributesTag",
                        "PrinterAttributesTag", "UnsupportedAttributesTag"}
    THEN Err("ProtocolError")
    ELSE IF t2.tag = "BegCollection"
    THEN MemberCollection(bytes, map, attr_name,
                          parse_attribute(bytes, t2.pos, "BegCollection", b), b)
    ELSE MemberInserted(bytes, map, attr_name,
                        parse_attribute(bytes, t2.pos, t2.tag, b), b)

\* `if let AttributeValue::MemberAttrName(name) = attr.1` on the
\* MemberAttrName attribute m
MemberName(bytes, map, m, b) ==
    IF ~m.ok THEN m
    ELSE IF Kind(m.value) # "MemberAttrName" THEN Err("ProtocolError")
    ELSE MemberValue(bytes, map, Payload(m.value), parse_tag(bytes, m.pos), b)

\* the EndCollection attribute e closes the collection
CollectionEnd(map, e) ==
    IF ~e.ok THEN e
    ELSE [ok |-> TRUE, value |-> Val("CollectionAttribute", map), pos |-> e.pos]

\* `match Self::parse_tag(reader)?` on the first tag t1 of a turn
CollectionTag(bytes, map, t1, b) ==
    IF ~t1.ok THEN t1
    ELSE IF t1.tag = "EndCollection"
    THEN CollectionEnd(map, parse_attribute(bytes, t1.pos, "EndCollection", b))
    ELSE IF t1.tag = "MemberAttrName"
    THEN MemberName(bytes, map,
                    parse_attribute(bytes, t1.pos, "MemberAttrName", b), b)
    ELSE Err("ProtocolError")

CollectionLoop(bytes, pos, map, b) ==
    CollectionTag(bytes, map, parse_tag(bytes, pos), b)

\* IPPResponse::parse_collection
parse_collection(bytes, pos, b) == CollectionLoop(bytes, pos, <<>>, b)

\* The inner loop of parse_attribute_group (lines 857-879): the attributes
\* read up to the next delimiter, with that delimiter.  The operators
\* before ReadGroupAttrs are the statements of one turn.
RECURSIVE ReadGroupAttrs(_, _, _, _)

\* `attrs.push_back((name, a.value))`, and the next turn
AttrPushed(bytes, attrs, name, a, b) ==
    IF ~a.ok THEN a
    ELSE ReadGroupAttrs(bytes, a.pos, Append(attrs, <<name, a.value>>), b)

\* the BegCollection arm, after its attribute beg
GroupCollection(bytes, attrs, beg, b) ==
    IF ~beg.ok THEN beg
    ELSE AttrPushed(bytes, attrs, beg.name, parse_collection(bytes, beg.pos, b), b)

\* the `_` arm, after its attribute a
GroupAttribute(bytes, attrs, a, b) ==
    IF ~a.ok THEN a ELSE AttrPushed(bytes, attrs, a.name, a, b)

\* `match tag` on the tag t
GroupTag(bytes, attrs, t, b) ==
    IF ~t.ok THEN t
    ELSE IF t.tag \in DelimiterTags
    THEN [ok |-> TRUE, attrs |-> attrs, next_attr_tag |-> t.tag,
          end |-> t.tag = "EndOfAttributesTag", pos |-> t.pos]
    ELSE IF t.tag = "BegCollection"
    THEN GroupCollection(bytes, attrs, parse_attribute(bytes, t.pos, t.tag, b), b)
    ELSE GroupAttribute(bytes, attrs, parse_attribute(bytes, t.pos, t.tag, b), b)

ReadGroupAttrs(bytes, pos, attrs, b) ==
    GroupTag(bytes, attrs, parse_tag(bytes, pos), b)

\* The number of attributes at the front of attrs whose name is empty.
RECURSIVE EmptyNamePrefix(_)
EmptyNamePrefix(attrs) ==
    IF attrs # <<>> /\ Len(Head(attrs)[1]) = 0
    THEN 1 + EmptyNamePrefix(Tail(attrs))
    ELSE 0

\* Coalesced without lines 895-897: the value of attr itself is left out
\* of attr_vec.  The vectors of C5 must not hold for it.
CoalescedWithoutFirst(attrs, k) ==
    IF k = 0 THEN Head(attrs)
    ELSE <<Head(attrs)[1],
           Val("VectorAttribute", [i \in 1..k |-> attrs[i + 1][2]])>>

\* The attribute pushed for attr and the k attributes with an empty name
\* that follow it in attrs: attr itself, or its name with attr_vec.
Coalesced(attrs, k) ==
    IF k = 0 THEN Head(attrs)
    ELSE <<Head(attrs)[1],
           Val("VectorAttribute", [i \in 1..(k + 1) |-> attrs[i][2]])>>

\* "Convert additional-values to vector" (lines 886-912): attr is popped,
\* the attributes with an empty name that follow it are popped into
\* attr_vec behind its value, and the scalar or the vector is pushed.
RECURSIVE ConvertAdditionalValues(_)
ConvertFrom(attrs, k) ==
    <<Coalesced(attrs, k)>>
        \o ConvertAdditionalValues(SubSeq(attrs, k + 2, Len(attrs)))

ConvertAdditionalValues(attrs) ==
    IF attrs = <<>> THEN <<>>
    ELSE ConvertFrom(attrs, EmptyNamePrefix(Tail(attrs)))

\* The outer loop of parse_attribute_group, with the groups read so far.
RECURSIVE GroupLoop(_, _, _, _, _)

\* `attr_groups.push((cur_attr_tag, group))` with the group r read, then
\* `if end_of_attrs { break; }`
GroupPushed(bytes, r, groups, b) ==
    IF r.end THEN [ok |-> TRUE, attrs |-> groups, pos |-> r.pos]
    ELSE GroupLoop(bytes, r.pos, r.next_attr_tag, groups, b)

GroupRead(bytes, cur_attr_tag, attr_groups, r, b) ==
    IF ~r.ok THEN r
    ELSE GroupPushed(bytes, r,
            Append(attr_groups, <<cur_attr_tag, ConvertAdditionalValues(r.attrs)>>),
            b)

GroupLoop(bytes, pos, cur_attr_tag, attr_groups, b) ==
    GroupRead(bytes, cur_attr_tag, attr_groups,
              ReadGroupAttrs(bytes, pos, <<>>, b), b)

\* `let mut cur_attr_tag = Self::parse_tag(reader)?`
FirstTag(bytes, t, b) ==
    IF ~t.ok THEN t ELSE GroupLoop(bytes, t.pos, t.tag, <<>>, b)

\* IPPResponse::parse_attribute_group
parse_attribute_group(bytes, pos, b) == FirstTag(bytes, parse_tag(bytes, pos), b)

\* `Ok(IPPResponse { .. })` with the groups g and the rest of the input
ResponseBuilt(bytes, status, g) ==
    IF ~g.ok THEN g
    ELSE [ok |-> TRUE,
          version_major |-> AsI8(bytes[1]),
          version_minor |-> AsI8(bytes[2]),
          status_code |-> status,
          request_id |-> I32FromBE(SubSeq(bytes, 5, 8)),
          attrs |-> g.attrs,
          data |-> SubSeq(bytes, g.pos, Len(bytes))]

\* `StatusCode::from_i16(..)` on the third and fourth byte
StatusRead(bytes, status, b) ==
    IF status \notin StatusCodes THEN Err("ProtocolError")
    ELSE ResponseBuilt(bytes, status, parse_attribute_group(bytes, 9, b))

\* IPPResponse::read_from_stream
read_from_stream(bytes, b) ==
    IF Len(bytes) < 8 THEN Err("IOError")
    ELSE StatusRead(bytes, I16FromBE(bytes[3], bytes[4]), b)

(***************************************************************************)
(* The macros write_int_be! and write_attr! (main.rs, lines 960-987), with *)
(* which main and the test build messages byte by byte.                    *)
(***************************************************************************)
\* write_attr!(writer, type, name, value)
write_attr(type, name, value) ==
    <<TagByte(type)>> \o U16BE(AsU16(Len(name))) \o name
        \o U16BE(AsU16(Len(value))) \o value

\* The 8 bytes that open a response, as tests::parse_collection writes them.
ResponseHeader(major, minor, status, request_id) ==
    <<AsU8(major), AsU8(minor)>> \o U16BE(status) \o I32BE(request_id)

(***************************************************************************)
(* Inputs of SpecIpp.  Strings are ASCII byte strings.                     *)
(***************************************************************************)
StrA == <<97>>
StrB == <<98>>
StrC == <<99>>
StrK1 == <<107, 49>>
StrK2 == <<107, 50>>
StrU == <<117>>
StrV == <<118>>
StrW == <<119>>
StrEn == <<101, 110>>
Empty == <<>>

\* A member value of a collection on the wire: a primitive attribute (its
\* tag, its value bytes and the AttributeValue they stand for) or a nested
\* collection (its members, each <<member name, member value>>).
Leaf(tag, bytes, value) ==
    [leaf |-> TRUE, tag |-> tag, bytes |-> bytes, value |-> value, members |-> <<>>]
Node(members) ==
    [leaf |-> FALSE, tag |-> "BegCollection", bytes |-> <<>>, value |-> <<>>,
     members |-> members]

LeafV == Leaf("Keyword", StrV, Val("Keyword", StrV))
LeafW == Leaf("Keyword", StrW, Val("Keyword", StrW))
Leaf7 == Leaf("Integer", <<0, 0, 0, 7>>, Val("Integer", 7))

TreeOne == Node(<< <<StrK1, LeafV>> >>)
TreeTwo == Node(<< <<StrK1, LeafV>>, <<StrK2, Leaf7>> >>)
TreeDup == Node(<< <<StrK1, LeafV>>, <<StrK1, LeafW>> >>)
TreeNested == Node(<< <<StrK1, LeafV>>, <<StrK2, TreeOne>> >>)
TreeDeep == Node(<< <<StrK2, TreeNested>>, <<StrK1, Leaf7>> >>)
TreeEmpty == Node(<<>>)

\* The bytes of a well-formed collection named name, written as
\* tests::parse_collection writes one (lines 1052-1063): BegCollection, then
\* for each member a MemberAttrName and the member's value, EndCollection.
RECURSIVE CollectionWire(_, _)
RECURSIVE MembersWire(_)
MembersWire(ms) ==
    IF ms = <<>> THEN <<>>
    ELSE LET m == Head(ms)
         IN  write_attr("MemberAttrName", Empty, m[1])
                \o (IF m[2].leaf THEN write_attr(m[2].tag, Empty, m[2].bytes)
                    ELSE CollectionWire(Empty, m[2]))
                \o MembersWire(Tail(ms))
CollectionWire(name, tree) ==
    write_attr("BegCollection", name, Empty) \o MembersWire(tree.members)
        \o write_attr("EndCollection", Empty, Empty)

\* An attribute of a group on the wire: a primitive attribute or a
\* collection, under a name.
Item(name, node) == [name |-> name, node |-> node]

ItemWire(it) ==
    IF it.node.leaf THEN write_attr(it.node.tag, it.name, it.node.bytes)
    ELSE CollectionWire(it.name, it.node)

RECURSIVE ItemsWire(_)
ItemsWire(its) ==
    IF its = <<>> THEN <<>> ELSE ItemWire(Head(its)) \o ItemsWire(Tail(its))

LeafX == Leaf("Uri", StrU, Val("Uri", StrU))
LeafY == Leaf("Uri", StrV, Val("Uri", StrV))

ItemAlphabet ==
    {Item(StrA, LeafX), Item(Empty, LeafY), Item(Empty, Leaf7),
     Item(StrC, TreeTwo), Item(Empty, TreeDup), Item(StrB, TreeDeep),
     Item(StrA, TreeEmpty)}

\* The attributes a second group is made of.
SecondItems == {Item(StrA, LeafX), Item(StrC, TreeTwo)}

RECURSIVE SeqsUpTo(_, _)
SeqsUpTo(S, n) ==
    IF n = 0 THEN {<<>>}
    ELSE LET shorter == SeqsUpTo(S, n - 1)
         IN  shorter \cup {Append(s, e) : s \in shorter, e \in S}

\* A raw wire attribute <<tag, name, value bytes>>, well placed or not.
TokenAlphabet ==
    {<<"BegCollection", StrC, Empty>>, <<"EndCollection", Empty, Empty>>,
     <<"MemberAttrName", Empty, StrK1>>, <<"Keyword", Empty, StrV>>,
     <<"Uri", StrA, StrU>>}

RECURSIVE TokensWire(_)
TokensWire(ts) ==
    IF ts = <<>> THEN <<>>
    ELSE write_attr(Head(ts)[1], Head(ts)[2], Head(ts)[3]) \o TokensWire(Tail(ts))

\* The requests handed to write_to_stream.
ValCollOne == Val("CollectionAttribute", (StrK1 :> Val("Keyword", StrV)))
ValCollTwo ==
    Val("CollectionAttribute",
        (StrK1 :> Val("Keyword", StrV)) @@ (StrK2 :> ValCollOne))
ValVector == Val("VectorAttribute", <<Val("Uri", StrU), Val("Uri", StrV)>>)

ReqAttrAlphabet ==
    {<<StrA, Val("Integer", -2)>>, <<StrB, Val("Keyword", StrV)>>,
     <<StrA, Val("TextWithLanguage", <<StrEn, StrW>>)>>,
     <<StrA, ValVector>>, <<StrB, ValCollOne>>, <<StrC, ValCollTwo>>}

ReqGroupLists ==
    {<<>>}
      \cup {<< <<"OperationAttributesTag", as>> >> :
                as \in SeqsUpTo(ReqAttrAlphabet, MaxReqAttrs)}
      \cup {<< <<"OperationAttributesTag", as>>, <<"JobAttributesTag", bs>> >> :
                as \in SeqsUpTo(ReqAttrAlphabet, MaxReqAttrs),
                bs \in SeqsUpTo(ReqAttrAlphabet, 1)}

\* Document data; one starts with the byte of EndOfAttributesTag.
DataInputs == {<<>>, <<3, 37>>}

Requests ==
    [version_major : {1}, version_minor : {1}, operation_id : {2, 11},
     request_id : {1}, attrs : ReqGroupLists, data : DataInputs]

NoRequest ==
    [version_major |-> 0, version_minor |-> 0, operation_id |-> 0,
     request_id |-> 0, attrs |-> <<>>, data |-> <<>>]

\* A message received: "items" is a response of well-formed attributes in
\* one or two groups, "tokens" one group of raw wire attributes, closed by
\* EndOfAttributesTag or cut before it; "request" is the bytes of req.
ItemMessages ==
    [fam : {"items"}, first : SeqsUpTo(ItemAlphabet, MaxItems),
     second : {<<>>} \cup {<<it>> : it \in SecondItems},
     two : BOOLEAN, tokens : {<<>>}, closed : {TRUE}, data : {<<>>}]

TokenMessages ==
    [fam : {"tokens"}, first : {<<>>}, second : {<<>>}, two : {FALSE},
     tokens : SeqsUpTo(TokenAlphabet, MaxTokens), closed : BOOLEAN, data : {<<>>}]

RequestMessage ==
    [fam |-> "request", first |-> <<>>, second |-> <<>>, two |-> FALSE,
     tokens |-> <<>>, closed |-> FALSE, data |-> <<>>]

\* What follows an EndOfAttributesTag that comes right after the header:
\* nothing, or bytes of a document.
EndedData == {<<>>, <<3>>, <<37, 80>>, <<3, 37>>, <<1, 3>>, <<68, 0, 0, 0, 0, 3>>}

\* "ended": a response with no attribute group, the header and then
\* EndOfAttributesTag and the document.
EndedMessages ==
    [fam : {"ended"}, first : {<<>>}, second : {<<>>}, two : {FALSE},
     tokens : {<<>>}, closed : {FALSE}, data : EndedData]

Messages ==
    {m \in ItemMessages : m.two \/ m.second = <<>>} \cup TokenMessages
        \cup EndedMessages

\* The bytes of a message received.
MessageWire(m) ==
    IF m.fam = "ended"
    THEN ResponseHeader(1, 1, 0, 1) \o <<TagByte("EndOfAttributesTag")>> \o m.data
    ELSE ResponseHeader(1, 1, 0, 1)
        \o <<TagByte("OperationAttributesTag")>>
        \o (IF m.fam = "items" THEN ItemsWire(m.first) ELSE TokensWire(m.tokens))
        \o (IF m.two THEN <<TagByte("JobAttributesTag")>> \o ItemsWire(m.second)
            ELSE <<>>)
        \o (IF m.closed THEN <<TagByte("EndOfAttributesTag")>> ELSE <<>>)
        \o m.data

NoResponse == [ok |-> FALSE, err |-> "none"]

(***************************************************************************)
(* SpecIpp: a request is written with write_to_stream and the bytes are    *)
(* read back with read_from_stream, or the bytes of a message received are *)
(* read with read_from_stream.                                             *)
(***************************************************************************)
InitIpp ==
    /\ \/ /\ pc = "encode"
          /\ req \in Requests
          /\ msg = RequestMessage
          /\ wire = <<>>
       \/ /\ pc = "decode"
          /\ req = NoRequest
          /\ msg \in Messages
          /\ wire = MessageWire(msg)
    /\ resp = NoResponse
    /\ IdleRow
    /\ IdleImage

\* IPPRequest::write_to_stream(&mut wire)
Encode ==
    /\ pc = "encode"
    /\ wire' = write_to_stream(req)
    /\ pc' = "decode"
    /\ UNCHANGED <<req, msg, resp, rowVars, imageVars>>

\* IPPResponse::read_from_stream(&mut &wire[..]), in either build
Decode ==
    /\ pc = "decode"
    /\ \E b \in Builds : resp' = read_from_stream(wire, b)
    /\ pc' = "done"
    /\ UNCHANGED <<req, msg, wire, rowVars, imageVars>>

NextIpp == Encode \/ Decode

SpecIpp == InitIpp /\ [][NextIpp]_vars

(***************************************************************************)
(* SpecHeader: PageHeader::write_to_stream after the synchronization word, *)
(* and the header part of read_raster on the bytes written.                *)
(***************************************************************************)
\* `[0; n]`
Zeros(n) == [i \in 1..n |-> 0]

\* u32::to_be_bytes and u32::from_be_bytes, for values below 2^31.
U32BE(n) ==
    <<(n \div 16777216) % 256, (n \div 65536) % 256, (n \div 256) % 256, n % 256>>

U32FromBE(b) == ((b[1] * 256 + b[2]) * 256 + b[3]) * 256 + b[4]

\* impl Default for PageHeader: the value of each field, a byte array as a
\* sequence of bytes and a [u32; 2] as a pair.
PageHeader_default ==
    [pwg_raster |-> Zeros(64),
     media_color |-> Zeros(64),
     media_type |-> Zeros(64),
     print_content_optimize |-> Zeros(64),
     reserved_0 |-> Zeros(12),
     cut_media |-> 0,
     duplex |-> 0,
     hw_resolution |-> <<300, 300>>,
     reserved_1 |-> Zeros(16),
     insert_sheet |-> 0,
     jog |-> 0,
     leading_edge |-> 0,
     reserved_2 |-> Zeros(12),
     media_position |-> 0,
     media_weight_metric |-> 0,
     reserved_3 |-> Zeros(8),
     num_copies |-> 0,
     orientation |-> 0,
     reserved_4 |-> Zeros(4),
     page_size |-> <<595, 841>>,
     reserved_5 |-> Zeros(8),
     tumble |-> 0,
     width |-> 2480,
     height |-> 3507,
     reserved_6 |-> Zeros(4),
     bits_per_color |-> 8,
     bits_per_pixel |-> 24,
     bytes_per_line |-> 7440,
     color_order |-> 0,
     color_space |-> 19,
     reserved_7 |-> Zeros(16),
     num_colors |-> 3,
     reserved_8 |-> Zeros(28),
     total_page_count |-> 1,
     cross_feed_transform |-> 1,
     feed_transform |-> 1,
     image_box_left |-> 0,
     image_box_top |-> 0,
     image_box_right |-> 0,
     image_box_bottom |-> 0,
     alternate_primary |-> 16777215,
     print_quality |-> 0,
     reserved_9 |-> Zeros(20),
     vendor_identifier |-> 0,
     vendor_length |-> 0,
     vendor_data |-> Zeros(1088),
     reserved_10 |-> Zeros(64),
     rendering_intent |-> Zeros(64),
     page_size_name |-> <<105, 115, 111, 95, 97, 52, 95, 50, 49, 48, 120, 50, 57, 55, 109, 109>> \o Zeros(48)]

\* PageHeaderWrites with height written before width.  The offsets of C17
\* must not hold for it.
PageHeaderWritesHeightFirst ==
    <<<<"pwg_raster", "bytes", 0, 64>>, <<"media_color", "bytes", 0, 64>>,
      <<"media_type", "bytes", 0, 64>>,
      <<"print_content_optimize", "bytes", 0, 64>>,
      <<"reserved_0", "bytes", 0, 12>>, <<"cut_media", "u32", 0, 4>>,
      <<"duplex", "u32", 0, 4>>, <<"hw_resolution", "u32", 1, 4>>,
      <<"hw_resolution", "u32", 2, 4>>, <<"reserved_1", "bytes", 0, 16>>,
      <<"insert_sheet", "u32", 0, 4>>, <<"jog", "u32", 0, 4>>,
      <<"leading_edge", "u32", 0, 4>>, <<"reserved_2", "bytes", 0, 12>>,
      <<"media_position", "u32", 0, 4>>,
      <<"media_weight_metric", "u32", 0, 4>>,
      <<"reserved_3", "bytes", 0, 8>>, <<"num_copies", "u32", 0, 4>>,
      <<"orientation", "u32", 0, 4>>, <<"reserved_4", "bytes", 0, 4>>,
      <<"page_size", "u32", 1, 4>>, <<"page_size", "u32", 2, 4>>,
      <<"reserved_5", "bytes", 0, 8>>, <<"tumble", "u32", 0, 4>>,
      <<"height", "u32", 0, 4>>, <<"width", "u32", 0, 4>>,
      <<"reserved_6", "bytes", 0, 4>>, <<"bits_per_color", "u32", 0, 4>>,
      <<"bits_per_pixel", "u32", 0, 4>>, <<"bytes_per_line", "u32", 0, 4>>,
      <<"color_order", "u32", 0, 4>>, <<"color_space", "u32", 0, 4>>,
      <<"reserved_7", "bytes", 0, 16>>, <<"num_colors", "u32", 0, 4>>,
      <<"reserved_8", "bytes", 0, 28>>, <<"total_page_count", "u32", 0, 4>>,
      <<"cross_feed_transform", "i32", 0, 4>>,
      <<"feed_transform", "i32", 0, 4>>, <<"image_box_left", "u32", 0, 4>>,
      <<"image_box_top", "u32", 0, 4>>, <<"image_box_right", "u32", 0, 4>>,
      <<"image_box_bottom", "u32", 0, 4>>,
      <<"alternate_primary", "u32", 0, 4>>, <<"print_quality", "u32", 0, 4>>,
      <<"reserved_9", "bytes", 0, 20>>, <<"vendor_identifier", "u32", 0, 4>>,
      <<"vendor_length", "u32", 0, 4>>, <<"vendor_data", "bytes", 0, 1088>>,
      <<"reserved_10", "bytes", 0, 64>>,
      <<"rendering_intent", "bytes", 0, 64>>,
      <<"page_size_name", "bytes", 0, 64>>>>

\* PageHeader::write_to_stream: its writes in order, each as <<field, kind,
\* index, bytes>>; index is 0 for a whole field and i + 1 for `field[i]`,
\* kind "bytes" for `&self.field` and "u32" or "i32" for `to_be_bytes()`.
PageHeaderWrites ==
    <<<<"pwg_raster", "bytes", 0, 64>>, <<"media_color", "bytes", 0, 64>>,
      <<"media_type", "bytes", 0, 64>>,
      <<"print_content_optimize", "bytes", 0, 64>>,
      <<"reserved_0", "bytes", 0, 12>>, <<"cut_media", "u32", 0, 4>>,
      <<"duplex", "u32", 0, 4>>, <<"hw_resolution", "u32", 1, 4>>,
      <<"hw_resolution", "u32", 2, 4>>, <<"reserved_1", "bytes", 0, 16>>,
      <<"insert_sheet", "u32", 0, 4>>, <<"jog", "u32", 0, 4>>,
      <<"leading_edge", "u32", 0, 4>>, <<"reserved_2", "bytes", 0, 12>>,
      <<"media_position", "u32", 0, 4>>,
      <<"media_weight_metric", "u32", 0, 4>>,
      <<"reserved_3", "bytes", 0, 8>>, <<"num_copies", "u32", 0, 4>>,
      <<"orientation", "u32", 0, 4>>, <<"reserved_4", "bytes", 0, 4>>,
      <<"page_size", "u32", 1, 4>>, <<"page_size", "u32", 2, 4>>,
      <<"reserved_5", "bytes", 0, 8>>, <<"tumble", "u32", 0, 4>>,
      <<"width", "u32", 0, 4>>, <<"height", "u32", 0, 4>>,
      <<"reserved_6", "bytes", 0, 4>>, <<"bits_per_color", "u32", 0, 4>>,
      <<"bits_per_pixel", "u32", 0, 4>>, <<"bytes_per_line", "u32", 0, 4>>,
      <<"color_order", "u32", 0, 4>>, <<"color_space", "u32", 0, 4>>,
      <<"reserved_7", "bytes", 0, 16>>, <<"num_colors", "u32", 0, 4>>,
      <<"reserved_8", "bytes", 0, 28>>, <<"total_page_count", "u32", 0, 4>>,
      <<"cross_feed_transform", "i32", 0, 4>>,
      <<"feed_transform", "i32", 0, 4>>, <<"image_box_left", "u32", 0, 4>>,
      <<"image_box_top", "u32", 0, 4>>, <<"image_box_right", "u32", 0, 4>>,
      <<"image_box_bottom", "u32", 0, 4>>,
      <<"alternate_primary", "u32", 0, 4>>, <<"print_quality", "u32", 0, 4>>,
      <<"reserved_9", "bytes", 0, 20>>, <<"vendor_identifier", "u32", 0, 4>>,
      <<"vendor_length", "u32", 0, 4>>, <<"vendor_data", "bytes", 0, 1088>>,
      <<"reserved_10", "bytes", 0, 64>>,
      <<"rendering_intent", "bytes", 0, 64>>,
      <<"page_size_name", "bytes", 0, 64>>>>

\* The bytes one write of write_to_stream hands to the writer.
WriteBytes(h, w) ==
    LET v == IF w[3] = 0 THEN h[w[1]] ELSE h[w[1]][w[3]]
    IN  CASE w[2] = "bytes" -> v
          [] w[2] = "u32" -> U32BE(v)
          [] w[2] = "i32" -> I32BE(v)

\* The first k writes of write_to_stream.
RECURSIVE HeaderWritten(_, _)
HeaderWritten(h, k) ==
    IF k = 0 THEN <<>>
    ELSE HeaderWritten(h, k - 1) \o WriteBytes(h, PageHeaderWrites[k])

\* PageHeader::write_to_stream: the bytes written and the Ok(written).
PageHeader_write_to_stream(h) ==
    LET bytes == HeaderWritten(h, Len(PageHeaderWrites))
    IN  [bytes |-> bytes, written |-> Len(bytes)]

\* read_raster, lines 429-781: the reads of the header after the
\* synchronization word, each as <<label printed, kind, bytes read>>; kind
\* "utf8" for String::from_utf8(..).unwrap(), "u32", "i32" and "f32" for
\* from_be_bytes, "raw" for bytes printed as they are or not at all.
ReadSteps ==
    <<<<"PwgRaster", "utf8", 64>>, <<"MediaColor", "utf8", 64>>,
      <<"MediaType", "utf8", 64>>, <<"PrintContentOptimize", "utf8", 64>>,
      <<"(cups)AdvanceDistance", "u32", 4>>,
      <<"(cups)AdvanceMedia", "u32", 4>>, <<"(cups)Collate", "u32", 4>>,
      <<"CutMedia", "u32", 4>>, <<"Duplex", "u32", 4>>,
      <<"HWResolution[v]", "u32", 4>>, <<"HWResolution[h]", "u32", 4>>,
      <<"(cups)ImagingBoundingBox[l]", "u32", 4>>,
      <<"(cups)ImagingBoundingBox[b]", "u32", 4>>,
      <<"(cups)ImagingBoundingBox[r]", "u32", 4>>,
      <<"(cups)ImagingBoundingBox[t]", "u32", 4>>,
      <<"InsertSheet", "u32", 4>>, <<"Jog", "u32", 4>>,
      <<"LeadingEdge", "u32", 4>>, <<"(cups)Margins[l]", "u32", 4>>,
      <<"(cups)Margins[r]", "u32", 4>>, <<"(cups)ManualFeed", "u32", 4>>,
      <<"MediaPosition", "u32", 4>>, <<"MediaWeightMetric", "u32", 4>>,
      <<"(cups)MirrorPrint", "u32", 4>>, <<"(cups)NegativePrint", "u32", 4>>,
      <<"NumCopies", "u32", 4>>, <<"Orientation", "u32", 4>>,
      <<"(cups)OutputFaceUp", "u32", 4>>, <<"PageSize[width]", "u32", 4>>,
      <<"PageSize[length]", "u32", 4>>, <<"(cups)Separations", "u32", 4>>,
      <<"(cups)TraySwitch", "u32", 4>>, <<"Tumble", "u32", 4>>,
      <<"Width", "u32", 4>>, <<"Height", "u32", 4>>,
      <<"(cups)MediaType", "u32", 4>>, <<"BitsPerColor", "u32", 4>>,
      <<"BitsPerPixel", "u32", 4>>, <<"BytesPerLine", "u32", 4>>,
      <<"ColorOrder", "u32", 4>>, <<"ColorSpace", "u32", 4>>,
      <<"(cups)Compression", "u32", 4>>, <<"(cups)RowCount", "u32", 4>>,
      <<"(cups)RowFeed", "u32", 4>>, <<"(cups)RowStep", "u32", 4>>,
      <<"NumColors", "u32", 4>>,
      <<"(cups)BorderlessScalingFactor", "f32", 4>>,
      <<"(cups)pageSize[width]", "f32", 4>>,
      <<"(cups)pageSize[length]", "f32", 4>>,
      <<"(cups)ImagingBBox[left]", "f32", 4>>,
      <<"(cups)ImagingBBox[bottom]", "f32", 4>>,
      <<"(cups)ImagingBBox[right]", "f32", 4>>,
      <<"(cups)ImagingBBox[top]", "f32", 4>>, <<"TotalPageCount", "u32", 4>>,
      <<"CrossFeedTransform", "i32", 4>>, <<"FeedTransform", "i32", 4>>,
      <<"ImageBoxLeft", "u32", 4>>, <<"ImageBoxTop", "u32", 4>>,
      <<"ImageBoxRight", "u32", 4>>, <<"ImageBoxBottom", "u32", 4>>,
      <<"AlternatePrimary", "u32", 4>>, <<"PrintQuality", "u32", 4>>,
      <<"reserved", "raw", 20>>, <<"VendorIdentifier", "u32", 4>>,
      <<"VendorLength", "u32", 4>>, <<"VendorData", "raw", 1088>>,
      <<"reserved", "raw", 64>>, <<"RenderingIntent", "raw", 64>>,
      <<"PageSizeName", "utf8", 64>>>>

\* What one read prints: the bytes of a string or of an f32, or the number.
ReadValue(kind, buf) ==
    CASE kind = "u32" -> U32FromBE(buf)
      [] kind = "i32" -> I32FromBE(buf)
      [] OTHER -> buf

\* n_read before the k-th read of the header: the bytes of the reads
\* before it.
RECURSIVE ReadOffset(_)
ReadOffset(k) == IF k = 1 THEN 0 ELSE ReadOffset(k - 1) + ReadSteps[k - 1][3]

\* The bytes the k-th read of the header takes from the stream, the header
\* beginning at position pos.
ReadBuf(stream, pos, k) ==
    SubSeq(stream, pos + ReadOffset(k), pos + ReadOffset(k + 1) - 1)

\* The reads of the header that fail: read_exact at the end of the stream,
\* or unwrap() on bytes that are not UTF-8.
ReadsFailing(stream, pos) ==
    {k \in 1..Len(ReadSteps) :
        \/ pos + ReadOffset(k + 1) - 1 > Len(stream)
        \/ ReadSteps[k][2] = "utf8" /\ ~Utf8Valid(ReadBuf(stream, pos, k))}

\* How the first read that fails ends read_raster.
FirstFailure(stream, pos, failing) ==
    LET k == CHOOSE f \in failing : \A g \in failing : f <= g
    IN  IF pos + ReadOffset(k + 1) - 1 > Len(stream) THEN Err("IOError")
        ELSE Err("panic")

\* The reads of the header from position pos of the stream; seen holds
\* <<label, offset in the header, bytes read, value>> of each read.
ReadHeaderFrom(stream, pos) ==
    IF ReadsFailing(stream, pos) # {}
    THEN FirstFailure(stream, pos, ReadsFailing(stream, pos))
    ELSE [ok |-> TRUE,
          n_read |-> ReadOffset(Len(ReadSteps) + 1),
          pos |-> pos + ReadOffset(Len(ReadSteps) + 1),
          seen |-> [k \in 1..Len(ReadSteps) |->
                      <<ReadSteps[k][1], ReadOffset(k), ReadSteps[k][3],
                        ReadValue(ReadSteps[k][2], ReadBuf(stream, pos, k))>>]]

\* read_raster up to `println!("{}", n_read)`: the synchronization word,
\* which n_read does not count, then the header.
read_raster_header(stream) ==
    IF Len(stream) < 4 THEN Err("IOError")
    ELSE IF ~Utf8Valid(SubSeq(stream, 1, 4)) THEN Err("panic")
    ELSE ReadHeaderFrom(stream, 5)

\* "RaS2", the synchronization word of a raster stream.
SyncWord == <<82, 97, 83, 50>>

\* The headers of SpecHeader: the default one, and the default one for other
\* page widths and heights in pixels.
HeaderWidths == {0, 1, 255, 256, 2480, 3507, 65536, 16777216}
HeaderHeights == {0, 1, 255, 256, 2480, 3507, 65536, 2147483647}
HeaderInputs ==
    {[PageHeader_default EXCEPT !.width = w, !.height = h] :
        w \in HeaderWidths, h \in HeaderHeights}

InitHeader ==
    /\ pc = "header"
    /\ req \in HeaderInputs
    /\ wire = SyncWord
    /\ msg = <<>> /\ resp = <<>>
    /\ IdleRow
    /\ IdleImage

\* req.write_to_stream(&mut wire); msg is the value returned.
WriteHeader ==
    /\ pc = "header"
    /\ LET res == PageHeader_write_to_stream(req)
       IN  /\ wire' = wire \o res.bytes
           /\ msg' = <<res.written>>
    /\ pc' = "header_written"
    /\ UNCHANGED <<req, resp, rowVars, imageVars>>

\* read_raster(&mut &wire[..]), up to the end of the header
ReadHeader ==
    /\ pc = "header_written"
    /\ resp' = read_raster_header(wire)
    /\ pc' = "header_read"
    /\ UNCHANGED <<req, msg, wire, rowVars, imageVars>>

NextHeader == WriteHeader \/ ReadHeader

SpecHeader == InitHeader /\ [][NextHeader]_vars

(***************************************************************************)
(* SpecMain: main, from the environment variable PRINTER_ADDR to the       *)
(* response printed.  msg is the variable (<<>> when it is not set), req    *)
(* the HTTP requests posted, wire the body of the response, resp what       *)
(* read_from_stream made of it.                                             *)
(***************************************************************************)
\* The strings of main, as bytes.
StrAttributesCharset ==
    <<97, 116, 116, 114, 105, 98, 117, 116, 101, 115, 45, 99, 104, 97, 114,
      115, 101, 116>>
StrUtf8 == <<117, 116, 102, 45, 56>>
StrAttributesNaturalLanguage ==
    <<97, 116, 116, 114, 105, 98, 117, 116, 101, 115, 45, 110, 97, 116, 117,
      114, 97, 108, 45, 108, 97, 110, 103, 117, 97, 103, 101>>
StrJaJp == <<106, 97, 45, 106, 112>>
StrPrinterUri == <<112, 114, 105, 110, 116, 101, 114, 45, 117, 114, 105>>
StrIppScheme == <<105, 112, 112, 58, 47, 47>>
StrHttpScheme == <<104, 116, 116, 112, 58, 47, 47>>

\* Values of PRINTER_ADDR: "192.0.2.1:631" and "p:1".
PrinterAddrs ==
    {<<49, 57, 50, 46, 48, 46, 50, 46, 49, 58, 54, 51, 49>>,
     <<112, 58, 49>>}

\* PrinterOperation::GetPrinterAttributes as i16
GetPrinterAttributes == 11

\* The bytes main builds in buf for the printer at addr, request-id 1.
MainRequestBody(addr) ==
    <<1, 1>> \o U16BE(GetPrinterAttributes) \o I32BE(1)
        \o <<TagByte("OperationAttributesTag")>>
        \o write_attr("Charset", StrAttributesCharset, StrUtf8)
        \o write_attr("NaturalLanguage", StrAttributesNaturalLanguage, StrJaJp)
        \o write_attr("Uri", StrPrinterUri, StrIppScheme \o addr)
        \o <<TagByte("EndOfAttributesTag")>>

\* The bodies a printer may answer with.
MainResponses ==
    EndedMessages
        \cup {m \in TokenMessages : Len(m.tokens) <= 2}
        \cup {m \in ItemMessages : Len(m.first) <= 1 /\ ~m.two /\ m.second = <<>>}

InitMain ==
    /\ pc = "main"
    /\ msg \in {<<>>} \cup {<<a>> : a \in PrinterAddrs}
    /\ req = <<>> /\ wire = <<>> /\ resp = <<>>
    /\ IdleRow
    /\ IdleImage

\* main, lines 990-1020: `expect` panics when PRINTER_ADDR is not set;
\* otherwise the request is built and posted to http://PRINTER_ADDR.
MainPost ==
    /\ pc = "main"
    /\ IF msg = <<>>
       THEN pc' = "main_panic" /\ UNCHANGED req
       ELSE /\ req' = Append(req, [url |-> StrHttpScheme \o msg[1],
                                   body |-> MainRequestBody(msg[1])])
            /\ pc' = "main_posted"
    /\ UNCHANGED <<msg, wire, resp, rowVars, imageVars>>

\* main, line 1020: `.send()?` fails and main returns the error.
MainSendFails ==
    /\ pc = "main_posted"
    /\ pc' = "main_err"
    /\ UNCHANGED <<req, msg, wire, resp, rowVars, imageVars>>

\* main, line 1020: `.send()?` gives a response, whose body is wire.
MainSendOk ==
    /\ pc = "main_posted"
    /\ \E m \in MainResponses : wire' = MessageWire(m)
    /\ pc' = "main_answered"
    /\ UNCHANGED <<req, msg, resp, rowVars, imageVars>>

\* main, lines 1022-1024: the response is read and printed, and main
\* returns Ok(()), or the error of read_from_stream.
MainRead ==
    /\ pc = "main_answered"
    /\ \E b \in Builds :
         /\ resp' = read_from_stream(wire, b)
         /\ pc' = IF resp'.ok THEN "main_ok"
                  ELSE IF resp'.err = "panic" THEN "main_panic"
                  ELSE "main_err"
    /\ UNCHANGED <<req, msg, wire, rowVars, imageVars>>

NextMain == MainPost \/ MainSendFails \/ MainSendOk \/ MainRead

SpecMain == InitMain /\ [][NextMain]_vars

(***************************************************************************)
(* SpecTag: parse_tag on a reader that holds any one byte, or none.        *)
(***************************************************************************)
TagInputs == {<<>>} \cup {<<b>> : b \in 0..255}

InitTag ==
    /\ pc = "tag"
    /\ wire \in TagInputs
    /\ req = <<>> /\ msg = <<>> /\ resp = <<>>
    /\ IdleRow
    /\ IdleImage

\* IPPResponse::parse_tag(&mut &wire[..])
ParseTag ==
    /\ pc = "tag"
    /\ resp' = parse_tag(wire, 1)
    /\ pc' = "tag_read"
    /\ UNCHANGED <<req, msg, wire, rowVars, imageVars>>

NextTag == ParseTag

SpecTag == InitTag /\ [][NextTag]_vars

(***************************************************************************)
(* SpecValue: decode_attribute_value on a tag and the bytes of a value as  *)
(* a peer may send them: of every length up to MaxPayload, every byte for  *)
(* a Boolean, strings with a byte that is not UTF-8, and values with a     *)
(* language whose two length fields are honest, too large or negative.     *)
(***************************************************************************)
MaxPayload == 12
MaxText == 2

\* 'a', and 0xFF, which no UTF-8 string holds.
TextBytes == {97, 255}
Texts == SeqsUpTo(TextBytes, MaxText)

\* n bytes c.
Filled(n, c) == [i \in 1..n |-> c]
FillBytes == {0, 1, 43, 255}

\* What a 2-byte length field may hold: a small length, and values with the
\* sign bit set (0x8000, 0xFFFC, 0xFFFE, 0xFFFF).
LengthFields == (0..(MaxText + 1)) \cup {32768, 65532, 65534, 65535}

\* The payload of a value with a language: the length of the language, the
\* language, the length of the string, the string, and possibly one byte
\* more; and payloads that end after the language.
WithLanguageBuffers ==
    {U16BE(ll) \o lang \o U16BE(sl) \o str \o extra :
        ll \in LengthFields, lang \in Texts, sl \in LengthFields,
        str \in Texts, extra \in {<<>>, <<0>>}}
        \cup {U16BE(ll) \o lang \o extra :
                 ll \in LengthFields, lang \in Texts, extra \in {<<>>, <<0>>}}

WithLanguageTags == {"TextWithLanguage", "NameWithLanguage"}

\* <<value_type, buf>>
ValueInputs ==
    {<<"Boolean", <<byte>>>> : byte \in 0..255}
        \cup {<<t, Filled(n, c)>> :
                 t \in ValueTags \cup DelimiterTags, n \in 0..MaxPayload,
                 c \in FillBytes}
        \cup {<<t, text>> : t \in StringTags, text \in Texts}
        \cup {<<t, buf>> : t \in WithLanguageTags, buf \in WithLanguageBuffers}

InitValue ==
    /\ pc = "value"
    /\ \E in \in ValueInputs : msg = in[1] /\ wire = in[2]
    /\ req = <<>> /\ resp = <<>>
    /\ IdleRow
    /\ IdleImage

\* IPPResponse::decode_attribute_value(msg, wire)
DecodeValue ==
    /\ pc = "value"
    /\ \E b \in Builds : resp' = decode_attribute_value(msg, wire, b)
    /\ pc' = "value_decoded"
    /\ UNCHANGED <<req, msg, wire, rowVars, imageVars>>

NextValue == DecodeValue

SpecValue == InitValue /\ [][NextValue]_vars

(***************************************************************************)
(* SpecParse: parse_attribute on a reader that holds a name-length, a      *)
(* name, a value-length and a value, where each length field is honest,    *)
(* larger than what follows or negative, or holds only a part of these.    *)
(***************************************************************************)
AttributeWires ==
    {U16BE(nl) \o name \o U16BE(vl) \o value :
        nl \in LengthFields, name \in Texts, vl \in LengthFields,
        value \in Texts}
        \cup {U16BE(nl) \o name \o extra :
                 nl \in LengthFields, name \in Texts, extra \in {<<>>, <<0>>}}
        \cup {<<>>, <<0>>}

ParseTags == {"Keyword", "Unsupported", "MemberAttrName"}

InitParse ==
    /\ pc = "attribute"
    /\ msg \in ParseTags
    /\ wire \in AttributeWires
    /\ req = <<>> /\ resp = <<>>
    /\ IdleRow
    /\ IdleImage

\* IPPResponse::parse_attribute(&mut &wire[..], msg)
ParseAttribute ==
    /\ pc = "attribute"
    /\ \E b \in Builds : resp' = parse_attribute(wire, 1, msg, b)
    /\ pc' = "attribute_parsed"
    /\ UNCHANGED <<req, msg, wire, rowVars, imageVars>>

NextParse == ParseAttribute

SpecParse == InitParse /\ [][NextParse]_vars

(***************************************************************************)
(* SpecStatus: read_from_stream on a response of one empty group, for      *)
(* every 16-bit value of the status code.                                  *)
(***************************************************************************)
StatusInputs == 0..65535

InitStatus ==
    /\ pc = "status"
    /\ msg \in StatusInputs
    /\ wire = ResponseHeader(1, 1, msg, 1)
                  \o <<TagByte("OperationAttributesTag"),
                       TagByte("EndOfAttributesTag")>>
    /\ req = <<>> /\ resp = <<>>
    /\ IdleRow
    /\ IdleImage

\* IPPResponse::read_from_stream(&mut &wire[..])
ReadStatus ==
    /\ pc = "status"
    /\ \E b \in Builds : resp' = read_from_stream(wire, b)
    /\ pc' = "status_read"
    /\ UNCHANGED <<req, msg, wire, rowVars, imageVars>>

NextStatus == ReadStatus

SpecStatus == InitStatus /\ [][NextStatus]_vars

(***************************************************************************)
(* SpecAttr: write_attribute_group on one group of one attribute, for      *)
(* names and values of every length around the limit of the `as u16` cast. *)
(***************************************************************************)
\* A string of n bytes (`a`).
Bytes(n) == [i \in 1..n |-> 97]

\* Byte lengths at which `len as u16` is the last exact, the first wrapped
\* and the next value.
WrapLens == {65535, 65536, 65537}
StrLens == (0..MaxStrLen) \cup WrapLens

\* What the caller supplies under SpecAttr, with every string given by its
\* byte length: strings, raw bytes and strings with a language of every
\* length in StrLens, and values of a fixed length.
AttrValueShapes ==
    {Val("Keyword", n) : n \in StrLens}
        \cup {Val("Unsupported", n) : n \in StrLens}
        \cup {Val("TextWithLanguage", <<l, n>>) :
                 l \in {0, 2}, n \in StrLens \cup {65530}}
        \cup {Val("Integer", 7), Val("Boolean", TRUE), Val("NoValue", <<>>),
              Val("RangeOfInteger", <<1, 2>>), Val("Resolution", <<300, 300, 3>>)}

AttrShapes == {<<n, v>> : n \in StrLens, v \in AttrValueShapes}

\* The attribute (name, value) of a shape.
AttrOf(shape) ==
    LET v == shape[2]
    IN  <<Bytes(shape[1]),
          CASE Kind(v) \in {"Keyword", "Unsupported"} ->
                  Val(Kind(v), Bytes(Payload(v)))
            [] Kind(v) = "TextWithLanguage" ->
                  Val(Kind(v), <<Bytes(Payload(v)[1]), Bytes(Payload(v)[2])>>)
            [] OTHER -> v>>

\* The bytes of a writer as runs <<byte, count>> of equal bytes, which keeps
\* a state small when a string is long; Unpacked gives the bytes back.
RunStartsOf(bytes) ==
    {i \in 1..Len(bytes) : i = 1 \/ bytes[i] # bytes[i - 1]}

RunsOf(bytes) ==
    LET starts == RunStartsOf(bytes)
        StartOf(k) ==
            CHOOSE i \in starts : Cardinality({j \in starts : j < i}) = k - 1
        EndOf(k) == IF k = Cardinality(starts) THEN Len(bytes)
                    ELSE StartOf(k + 1) - 1
    IN  [k \in 1..Cardinality(starts) |->
            <<bytes[StartOf(k)], EndOf(k) - StartOf(k) + 1>>]

RECURSIVE RunsLen(_, _)
RunsLen(runs, k) == IF k = 0 THEN 0 ELSE runs[k][2] + RunsLen(runs, k - 1)

Unpacked(runs) ==
    [i \in 1..RunsLen(runs, Len(runs)) |->
        runs[CHOOSE k \in 1..Len(runs) :
                 RunsLen(runs, k - 1) < i /\ i <= RunsLen(runs, k)][1]]

InitAttr ==
    /\ pc = "attr"
    /\ req \in AttrShapes
    /\ msg = <<>> /\ wire = <<>> /\ resp = <<>>
    /\ IdleRow
    /\ IdleImage

\* IPPRequest::write_attribute_group(&mut wire), the groups being one
\* operation-attributes group that holds the attribute of shape req.
WriteGroup ==
    /\ pc = "attr"
    /\ wire' = RunsOf(write_attribute_group(
                          <<<<"OperationAttributesTag", <<AttrOf(req)>>>>>>))
    /\ pc' = "attr_written"
    /\ UNCHANGED <<req, msg, resp, rowVars, imageVars>>

NextAttr == WriteGroup

SpecAttr == InitAttr /\ [][NextAttr]_vars

(***************************************************************************)
(* Claims on the scanline codec.                                           *)
(***************************************************************************)
\* C1: decoding the bytes of do_encode_row with the packet loop of
\* read_raster, run with the row's width, ends without a panic and yields
\* exactly the pixels of the row, whatever count bytes were emitted.
C1_RoundTrip ==
    /\ pc # "decode_panic"
    /\ pc = "done" => line = row

\* The round trip of C1 does hold for the rows whose packets carry no count
\* of -128 (not a claim of the list; it locates the failure of C1).
RoundTripBelow129 ==
    (\A k \in 1..Len(packets) : packets[k].count # -128)
        => /\ pc # "decode_panic"
           /\ pc = "done" => line = row

\* The number of pixels a packet stands for: |count| + 1.
Covered(p) == (IF p.count < 0 THEN -p.count ELSE p.count) + 1

\* The sum over the packets written of the pixels each stands for.
CoveredSum ==
    Cardinality(UNION {{<<k, j>> : j \in 1..Covered(packets[k])} :
                          k \in 1..Len(packets)})

\* C4: for a non-empty row the packets written tile the row: no packet
\* reads past the end of the row, each packet starts where the one before
\* ended, a run packet (count >= 0) stands for count + 1 pixels all equal to
\* its one payload pixel, a literal packet (count < 0) carries the next
\* -count + 1 pixels of the row verbatim, and once do_encode_row has
\* returned the pixels the packets stand for sum to row.len().
C4_PacketsCoverRow ==
    /\ pc = "encode_panic" => row = <<>>
    /\ \A k \in 1..Len(packets) :
         LET p == packets[k]
         IN  /\ p.at = IF k = 1 THEN 1 ELSE packets[k - 1].at + Covered(packets[k - 1])
             /\ p.at + Covered(p) - 1 <= Len(row)
             /\ p.count >= 0 =>
                  /\ Len(p.pixels) = 1
                  /\ \A j \in p.at..(p.at + p.count) : row[j] = p.pixels[1]
             /\ p.count < 0 =>
                  /\ Len(p.pixels) = -p.count + 1
                  /\ \A j \in 1..Len(p.pixels) : p.pixels[j] = row[p.at + j - 1]
    /\ EncodeReturned => CoveredSum = Len(row)

\* C4's case: a row with a run packet and a literal packet has been encoded.
C4_Witness ==
    /\ EncodeReturned
    /\ \E k \in 1..Len(packets) : packets[k].count > 0
    /\ \E k \in 1..Len(packets) : packets[k].count < -1

\* C11 as stated: the bytes do_encode_row writes for a row of width >= 1
\* are at most 1 + 3 * width.
C11_LengthBound == EncodeReturned => Len(writer) <= 1 + 3 * Len(row)

\* The number of packets it takes to cover n pixels with 129 pixels each.
Ceil129(n) == (n + 128) \div 129

\* C11, amended: the bytes do_encode_row writes for a row of width >= 1 are
\* at most 3 * width + ceil(width / 129), a count byte for every stretch of
\* up to 129 pixels; that is 1 + 3 * width as long as width <= 129.
C11_LengthBoundPerPacket ==
    EncodeReturned =>
        /\ Len(writer) <= 3 * Len(row) + Ceil129(Len(row))
        /\ Len(row) <= 129 => Len(writer) <= 1 + 3 * Len(row)

\* C11's case: a row wider than 129 pixels whose bytes pass 1 + 3 * width.
C11_Witness ==
    /\ EncodeReturned
    /\ Len(row) > 129
    /\ Len(writer) > 1 + 3 * Len(row)
    /\ Len(writer) = 3 * Len(row) + Ceil129(Len(row))

\* Every pixel of the row is the same.
Uniform(r) == \A i \in 1..Len(r) : r[i] = r[1]

\* Every pixel of the row differs from its right neighbour.
AllDiffer(r) == \A i \in 1..(Len(r) - 1) : r[i] # r[i + 1]

\* C12: a row of N >= 1 identical pixels is written as run packets only
\* (count byte 0..127, one payload pixel each): the first stands for
\* ((N - 1) mod 128) + 1 pixels and every later one for 128 pixels.
C12_UniformRowRuns ==
    (EncodeReturned /\ Uniform(row)) =>
        /\ \A k \in 1..Len(packets) :
              /\ packets[k].count \in 0..127
              /\ Len(packets[k].pixels) = 1
              /\ k > 1 => packets[k].count = 127
        /\ packets[1].count + 1 = ((Len(row) - 1) % 128) + 1
        /\ CoveredSum = Len(row)
        /\ SubSeq(writer, 1, 4) = <<(Len(row) - 1) % 128>> \o row[1]

\* C12's case: 200 identical pixels, written with count bytes 0x47, 0x7F.
C12_Witness ==
    /\ EncodeReturned /\ Uniform(row) /\ Len(row) = 200
    /\ Len(packets) = 2
    /\ writer = <<71>> \o row[1] \o <<127>> \o row[1]

\* C13: a row of N >= 2 pixels that each differ from the right neighbour is
\* written verbatim: the first packet carries ((N - 1) mod 129) + 1 pixels,
\* as a packet of count 0 when that is one pixel, every later packet is a
\* literal packet of 129 pixels with count byte 0x80; and in no row does a
\* literal packet carry fewer than 2 or more than 129 pixels.
C13_LiteralPackets ==
    /\ \A k \in 1..Len(packets) :
          packets[k].count < 0 =>
              /\ Len(packets[k].pixels) \in 2..129
              /\ packets[k].count \in -128..-1
    /\ (EncodeReturned /\ AllDiffer(row) /\ Len(row) >= 2) =>
          /\ Len(packets[1].pixels) = ((Len(row) - 1) % 129) + 1
          /\ packets[1].count = -((Len(row) - 1) % 129)
          /\ \A k \in 2..Len(packets) :
                /\ packets[k].count = -128
                /\ Len(packets[k].pixels) = 129
                /\ writer[3 * (packets[k].at - 1) + k] = 128
          /\ PixelBytes(row) =
                [i \in 1..(3 * Len(row)) |->
                    writer[i + Cardinality({k \in 1..Len(packets) :
                                              3 * (packets[k].at - 1) < i})]]

\* C13's case: 200 pixels that differ from their neighbours, written as a
\* literal of 71 pixels (count byte 186) and one of 129 (count byte 128).
C13_Witness ==
    /\ EncodeReturned /\ AllDiffer(row) /\ Len(row) = 200
    /\ Len(packets) = 2
    /\ writer[1] = 186
    /\ writer[1 + 3 * 71 + 1] = 128

IsPrefix(p, s) == Len(p) <= Len(s) /\ SubSeq(s, 1, Len(p)) = p

(***************************************************************************)
(* Claims on the image encoder.                                            *)
(***************************************************************************)
\* The rows a sequence of bands stands for: each scanline repeat + 1 times.
RECURSIVE Expand(_)
Expand(bs) ==
    IF bs = <<>> THEN <<>>
    ELSE [i \in 1..(Head(bs)[1] + 1) |-> Head(bs)[2]] \o Expand(Tail(bs))

\* The bytes of a sequence of bands: the repeat byte, then the packets.
RECURSIVE BandsBytes(_)
BandsBytes(bs) ==
    IF bs = <<>> THEN <<>>
    ELSE <<Head(bs)[1]>> \o do_encode_row(Head(bs)[2]).bytes \o BandsBytes(Tail(bs))

\* Every row of the image has been given to write_row.
AllRowsWritten == pc = "run" /\ height >= 1 /\ written_rows = height

\* C3: once write_row has been called with all `height` rows, the bytes
\* written are the bands written, the bands stand for exactly the rows
\* supplied (so their row counts sum to height and the last band is there),
\* and when the last two rows are identical the last band has repeat byte 1
\* and the scanline of those rows.
C3_AllRowsEmitted ==
    AllRowsWritten =>
        /\ out = BandsBytes(bands)
        /\ Len(Expand(bands)) = height
        /\ Expand(bands) = rows_in
        /\ (height >= 2 /\ rows_in[height] = rows_in[height - 1]) =>
              /\ bands # <<>>
              /\ bands[Len(bands)] = <<1, rows_in[height]>>

\* C14: after any sequence of successful write_row calls, the bands written
\* so far, each scanline repeated repeat + 1 times, are a prefix of the rows
\* supplied so far, in the order supplied: no row out of order, none twice.
C14_BandsArePrefix ==
    pc = "run" => IsPrefix(Expand(bands), rows_in)

\* The bands are a prefix of the rows as long as no more than 256 rows have
\* been supplied, the most that comm_rows can count in a stretch.
BandsArePrefixBelow257 ==
    (pc = "run" /\ Len(rows_in) <= 256) => IsPrefix(Expand(bands), rows_in)

\* C19: no band stands for more than 128 rows, its repeat byte is never
\* above 127, and comm_rows, a u8, never overflows: a stretch of more than
\* 128 identical rows is split into bands without losing a row, so that the
\* rows supplied are those of the bands written, those comm_rows counts and
\* the row held back.
C19_BandsAtMost128Rows ==
    /\ \A k \in 1..Len(bands) : bands[k][1] <= 127
    /\ (pc = "run" /\ prev_row # <<>>) =>
          Len(rows_in) = Len(Expand(bands)) + comm_rows + 1

\* The repeat bytes stay within 127 and no row is lost in images of up to
\* 128 rows.
BandsAtMost128RowsBelow129 ==
    Len(rows_in) <= 128 =>
        /\ \A k \in 1..Len(bands) : bands[k][1] <= 127
        /\ (pc = "run" /\ prev_row # <<>>) =>
              Len(rows_in) = Len(Expand(bands)) + comm_rows + 1

(***************************************************************************)
(* Claims on the IPP message codec.                                        *)
(***************************************************************************)
\* The bytes of the delimiter tags (0x01..0x05) and of the value tags.
ListedTagBytes ==
    (1..5) \cup {16, 18, 19} \cup {33, 34, 35} \cup (48..55)
        \cup {65, 66} \cup (68..74)

\* C16: for every byte b, parse_tag returns a tag of discriminant b when b
\* is a listed delimiter or value tag, and ProtocolError for every other
\* byte: no unknown byte becomes a tag or an Unsupported value.
C16_TagOrProtocolError ==
    (pc = "tag_read" /\ wire # <<>>) =>
        IF wire[1] \in ListedTagBytes
        THEN /\ resp.ok
             /\ TagByte(resp.tag) = wire[1]
             /\ resp.tag \in DelimiterTags <=> wire[1] \in 1..5
        ELSE resp = Err("ProtocolError")

\* C16's case: the byte 0x43, which is no tag, has been refused.
C16_Witness ==
    /\ pc = "tag_read"
    /\ wire = <<67>>
    /\ resp = Err("ProtocolError")

\* The offset in the header at which write_to_stream writes its k-th field.
RECURSIVE WriteOffset(_)
WriteOffset(k) ==
    IF k = 1 THEN 0 ELSE WriteOffset(k - 1) + PageHeaderWrites[k - 1][4]

\* The write of a field, by name.
WriteOf(field) ==
    CHOOSE k \in 1..Len(PageHeaderWrites) : PageHeaderWrites[k][1] = field

\* The read of the header that printed a label.
SeenAs(label) == CHOOSE k \in 1..Len(resp.seen) : resp.seen[k][1] = label

C20_EndFirstStopsDecoder ==
    (pc = "done" /\ Len(wire) >= 9 /\ wire[9] = 3) =>
        /\ resp.ok
        /\ resp.attrs = <<>>
        /\ resp.data = SubSeq(wire, 10, Len(wire))

\* The operation-id of each request posted, in the order posted.
OperationsPosted ==
    [k \in 1..Len(req) |-> req[k].body[3] * 256 + req[k].body[4]]

\* C18: main issues Get-Printer-Attributes (0x0B), Validate-Job (0x04),
\* Create-Job (0x05), Send-Document (0x06) and Get-Jobs (0x0A) in this
\* order to one printer URI, each after the response to the one before has
\* been read: the requests posted are always the first ones of that list,
\* and all five once main has returned Ok.
C18_FiveOperationsInOrder ==
    /\ IsPrefix(OperationsPosted, <<11, 4, 5, 6, 10>>)
    /\ \A k \in 1..Len(req) : req[k].url = req[1].url
    /\ pc = "main_ok" => OperationsPosted = <<11, 4, 5, 6, 10>>

\* main posts Get-Printer-Attributes and nothing else.
OnlyGetPrinterAttributes ==
    /\ pc \in {"main", "main_panic"} => req = <<>>
    /\ pc \in {"main_posted", "main_answered", "main_ok", "main_err"} =>
          OperationsPosted = <<11>>

\* The fields of the one attribute written under SpecAttr: after the tag of
\* the group and the tag of the value, the name-length, the name, the
\* value-length and the value bytes up to the end.
NameBytesWritten == req[1]
NameLengthField == Unpacked(wire)[3] * 256 + Unpacked(wire)[4]
ValueLengthField ==
    Unpacked(wire)[5 + req[1]] * 256 + Unpacked(wire)[6 + req[1]]
ValueBytesWritten == RunsLen(wire, Len(wire)) - (6 + req[1])

\* C15: for every attribute write_attribute_group writes, the name-length
\* field is the number of name bytes that follow it and the value-length
\* field is the number of value bytes that follow it, whatever the byte
\* lengths of the name and the value.
C15_LengthFieldsExact ==
    pc = "attr_written" =>
        /\ NameLengthField = NameBytesWritten
        /\ ValueLengthField = ValueBytesWritten

\* The length fields are exact for names and values of less than 65536
\* bytes.
LengthFieldsExactBelow65536 ==
    (pc = "attr_written" /\ NameBytesWritten < 65536
                        /\ ValueBytesWritten < 65536) =>
        /\ NameLengthField = NameBytesWritten
        /\ ValueLengthField = ValueBytesWritten

Encoded == msg.fam = "request" /\ pc \in {"decode", "done"}
Decoded == pc = "done"

\* The bytes of wire after the header and the tag of the first group.
AfterFirstGroupTag == SubSeq(wire, 10, Len(wire))

\* The first attribute of the first group of req, if there is one.
HasFirstAttr == Len(req.attrs) >= 1 /\ Len(req.attrs[1][2]) >= 1
FirstAttr == req.attrs[1][2][1]

\* C2: the bytes write_to_stream wrote for a request decode, with the
\* message decoder, to the request's version, request id, groups in order,
\* attributes in order and document bytes.  No request of the model has an
\* attribute with an empty name or a vector of one value, so that
\* additional-values coalescing leaves its attribute lists as they are.
C2_RequestRoundTrip ==
    (Decoded /\ msg.fam = "request") =>
        /\ resp.ok
        /\ resp.version_major = req.version_major
        /\ resp.version_minor = req.version_minor
        /\ resp.request_id = req.request_id
        /\ resp.attrs = req.attrs
        /\ resp.data = req.data

\* The AttributeValue a wire node stands for: the value of a primitive
\* attribute, and for a collection the map from each member name to the
\* value of the last member of that name.
RECURSIVE NodeValue(_)
MemberNames(ms) == {ms[i][1] : i \in 1..Len(ms)}
LastNamed(ms, n) ==
    ms[CHOOSE i \in 1..Len(ms) :
          ms[i][1] = n /\ \A j \in (i + 1)..Len(ms) : ms[j][1] # n][2]
NodeValue(node) ==
    IF node.leaf THEN node.value
    ELSE Val("CollectionAttribute",
             [n \in MemberNames(node.members) |->
                  NodeValue(LastNamed(node.members, n))])

\* The attributes a group of items puts on the wire, in wire order.
WireEntries(items) == [i \in 1..Len(items) |-> <<items[i].name, NodeValue(items[i].node)>>]

\* A run starts at the first attribute of a group and at every attribute
\* with a non-empty name; it ends before the next start.
RunStarts(es) == {i \in 1..Len(es) : i = 1 \/ es[i][1] # <<>>}
RunEnd(es, s) ==
    CHOOSE e \in s..Len(es) :
        /\ \A i \in (s + 1)..e : i \notin RunStarts(es)
        /\ e = Len(es) \/ (e + 1) \in RunStarts(es)
RunPosition(es, s) == Cardinality({t \in RunStarts(es) : t <= s})
RunValues(es, s, e) == [i \in 1..(e - s + 1) |-> es[s + i - 1][2]]

\* The decoded group d holds one entry per run of es, in wire order: the
\* run of a named attribute with additional values as (name, vector of the
\* values in wire order), a named attribute without additional values as
\* it is.
RunsFused(es, d) ==
    /\ Len(d) = Cardinality(RunStarts(es))
    /\ \A s \in RunStarts(es) :
          es[s][1] # <<>> =>
              d[RunPosition(es, s)] =
                  IF RunEnd(es, s) = s THEN es[s]
                  ELSE <<es[s][1],
                         Val("VectorAttribute", RunValues(es, s, RunEnd(es, s)))>>

\* C5: in every decoded group, a run of one named attribute and k >= 1
\* attributes with empty names is one entry (the name, VectorAttribute of
\* the k + 1 values in wire order) at the position of the run, a named
\* attribute with no empty-name attribute behind it stays a scalar, and
\* the entries are in wire order.
C5_AdditionalValuesFused ==
    (Decoded /\ msg.fam = "items" /\ resp.ok) =>
        /\ Len(resp.attrs) = (IF msg.two THEN 2 ELSE 1)
        /\ RunsFused(WireEntries(msg.first), resp.attrs[1][2])
        /\ msg.two => RunsFused(WireEntries(msg.second), resp.attrs[2][2])

C5_Witness ==
    /\ Decoded /\ msg.fam = "items" /\ resp.ok
    /\ \E s \in 1..(Len(msg.first) - 2) :
          /\ msg.first[s].name # <<>>
          /\ msg.first[s + 1].name = <<>>
          /\ msg.first[s + 2].name = <<>>
    /\ \E j \in 1..Len(resp.attrs[1][2]) :
          /\ Kind(resp.attrs[1][2][j][2]) = "VectorAttribute"
          /\ Len(Payload(resp.attrs[1][2][j][2])) = 3

\* No two members of one collection of the node have the same name.
RECURSIVE DistinctNames(_)
DistinctNames(node) ==
    node.leaf \/
        /\ Cardinality(MemberNames(node.members)) = Len(node.members)
        /\ \A i \in 1..Len(node.members) : DistinctNames(node.members[i][2])

\* The item at i of a group is a collection standing alone under its name.
LoneCollection(items, i) ==
    /\ ~items[i].node.leaf
    /\ DistinctNames(items[i].node)
    /\ items[i].name # <<>>
    /\ i = Len(items) \/ items[i + 1].name # <<>>

\* The decoded group d holds, for the collection at i of items, the
\* CollectionAttribute of its members under its name, and its next entry
\* is the attribute that follows the collection on the wire.
CollectionDecoded(items, d, i) ==
    /\ d[RunPosition(WireEntries(items), i)] =
            <<items[i].name, NodeValue(items[i].node)>>
    /\ i < Len(items) =>
            d[RunPosition(WireEntries(items), i) + 1][1] = items[i + 1].name

\* C6: a message of well-formed attributes decodes, and each well-formed
\* collection in it decodes to one CollectionAttribute mapping each member
\* name to its value, nested collections to nested CollectionAttributes at
\* the depth they have on the wire, and the attribute after the matching
\* EndCollection is the next one of the enclosing group.
C6_CollectionDecoded ==
    (Decoded /\ msg.fam = "items") =>
        /\ resp.ok
        /\ \A i \in 1..Len(msg.first) :
              LoneCollection(msg.first, i) =>
                  CollectionDecoded(msg.first, resp.attrs[1][2], i)
        /\ \A i \in 1..Len(msg.second) :
              LoneCollection(msg.second, i) =>
                  CollectionDecoded(msg.second, resp.attrs[2][2], i)

C6_Witness ==
    /\ Decoded /\ msg.fam = "items" /\ resp.ok
    /\ Len(msg.first) = 3
    /\ msg.first[1] = Item(StrB, TreeDeep)
    /\ msg.first[2] = Item(StrC, TreeTwo)
    /\ msg.first[3] = Item(StrA, LeafX)
    /\ Kind(resp.attrs[1][2][1][2][2][StrK2][2][StrK2]) = "CollectionAttribute"
    /\ resp.attrs[1][2][3] = <<StrA, Val("Uri", StrU)>>

\* C7: the bytes written for a request are its header, the bytes of its
\* groups, the byte 0x03 of EndOfAttributesTag and its document data: the
\* byte before the data is 0x03, also when the request has no group.
C7_EndOfAttributesWritten ==
    Encoded =>
        /\ Len(wire) >= 8 + 1 + Len(req.data)
        /\ SubSeq(wire, 1, 8) = RequestHeader(req)
        /\ SubSeq(wire, Len(wire) - Len(req.data) + 1, Len(wire)) = req.data
        /\ wire[Len(wire) - Len(req.data)] = TagByte("EndOfAttributesTag")

\* The wire attribute of a scalar value under a name: value tag,
\* name-length, name, value-length, value.
ScalarWire(name, val) ==
    <<TagByte(Kind(val))>> \o write_str_and_len(name) \o ValueField(val)

\* The wire attributes of the values vs of a vector, the first under name
\* and the others under the empty name.
RECURSIVE VectorWire(_, _)
VectorWire(name, vs) ==
    IF vs = <<>> THEN <<>>
    ELSE ScalarWire(name, Head(vs)) \o VectorWire(<<>>, Tail(vs))

\* C8: an attribute (name, VectorAttribute[v1..vk]) is written as k wire
\* attributes in order, v1 under the name and v2..vk under the empty name,
\* each with its own value tag, value-length and value.
C8_VectorWritten ==
    (Encoded /\ HasFirstAttr /\ Kind(FirstAttr[2]) = "VectorAttribute") =>
        IsPrefix(VectorWire(FirstAttr[1], Payload(FirstAttr[2])), AfterFirstGroupTag)

\* The orders in which the members of a map can be written.
Orders(S) ==
    {ord \in [1..Cardinality(S) -> S] : \A a \in S : \E i \in DOMAIN ord : ord[i] = a}

\* The byte strings that are a collection on the wire under a name:
\* BegCollection with the name and an empty value, for every member a
\* MemberAttrName (empty name, value = member name) and the member's value,
\* a nested collection written the same way, then EndCollection.
RECURSIVE CollectionEncodings(_, _)
RECURSIVE MembersEncodings(_, _)
MemberValueEncodings(val) ==
    IF Kind(val) = "CollectionAttribute"
    THEN CollectionEncodings(<<>>, Payload(val))
    ELSE {ScalarWire(<<>>, val)}
MembersEncodings(map, ord) ==
    IF ord = <<>> THEN {<<>>}
    ELSE {write_attr("MemberAttrName", <<>>, Head(ord)) \o v \o rest :
              v \in MemberValueEncodings(map[Head(ord)]),
              rest \in MembersEncodings(map, Tail(ord))}
CollectionEncodings(name, map) ==
    UNION {{write_attr("BegCollection", name, <<>>) \o body
                \o write_attr("EndCollection", <<>>, <<>>) :
                body \in MembersEncodings(map, ord)} : ord \in Orders(DOMAIN map)}

\* C9: an attribute (name, CollectionAttribute m) is written as a
\* BegCollection attribute with the name and an empty value, for every
\* member of m a MemberAttrName attribute and the member's value, nested
\* collections recursively, and an EndCollection attribute.
C9_CollectionWritten ==
    (Encoded /\ HasFirstAttr /\ Kind(FirstAttr[2]) = "CollectionAttribute") =>
        \E e \in CollectionEncodings(FirstAttr[1], Payload(FirstAttr[2])) :
            IsPrefix(e, AfterFirstGroupTag)

\* The number of attributes with the tag among the first n of ts.
TagCount(ts, n, tag) == Cardinality({i \in 1..n : ts[i][1] = tag})

\* Every EndCollection of ts closes an open collection and every
\* BegCollection is closed.
Balanced(ts) ==
    /\ \A n \in 1..Len(ts) :
          TagCount(ts, n, "EndCollection") <= TagCount(ts, n, "BegCollection")
    /\ TagCount(ts, Len(ts), "EndCollection")
          = TagCount(ts, Len(ts), "BegCollection")

\* C10: the message decoder succeeds only when the collection sentinels of
\* the input are balanced: an EndCollection that closes no open collection
\* and a BegCollection that is never closed make it fail.
C10_UnbalancedRejected ==
    (Decoded /\ msg.fam = "tokens" /\ resp.ok) => Balanced(msg.tokens)

\* A BegCollection that is never closed is rejected.
UnclosedRejected ==
    (Decoded /\ msg.fam = "tokens" /\ resp.ok) =>
        TagCount(msg.tokens, Len(msg.tokens), "EndCollection")
            >= TagCount(msg.tokens, Len(msg.tokens), "BegCollection")

\* The tags that begin an attribute group.
GroupDelimiterTags ==
    {"OperationAttributesTag", "JobAttributesTag", "PrinterAttributesTag",
     "UnsupportedAttributesTag"}

\* C21: in every response the message decoder returns, the tag of every
\* group is one of the four group delimiters (0x01, 0x02, 0x04, 0x05); no
\* group is tagged EndOfAttributesTag or with a value tag, whatever byte
\* follows the header.
C21_GroupTagsAreDelimiters ==
    (Decoded /\ resp.ok) =>
        \A g \in 1..Len(resp.attrs) : resp.attrs[g][1] \in GroupDelimiterTags

\* Where the byte after the header is a group delimiter, so is the tag of
\* every group returned.
GroupTagsAreDelimitersAfterDelimiter ==
    (Decoded /\ resp.ok /\ msg.fam # "ended") =>
        \A g \in 1..Len(resp.attrs) : resp.attrs[g][1] \in GroupDelimiterTags

\* Some member, at any depth, of the value is an EndCollection value.
RECURSIVE HoldsEndCollection(_)
HoldsEndCollection(val) ==
    /\ Kind(val) = "CollectionAttribute"
    /\ \E k \in DOMAIN Payload(val) :
          \/ Kind(Payload(val)[k]) = "EndCollection"
          \/ HoldsEndCollection(Payload(val)[k])

\* The tokens received open a collection, name a member and then, where the
\* member's value is expected, carry an EndCollection.
EndCollectionAsValue(ts) ==
    /\ Len(ts) >= 3
    /\ ts[1][1] = "BegCollection"
    /\ ts[2][1] = "MemberAttrName"
    /\ ts[3][1] = "EndCollection"

\* C22: inside a collection, a MemberAttrName followed at once by an
\* EndCollection makes the message decoder return ProtocolError, and no
\* collection returned has an EndCollection as the value of a member.
C22_EndCollectionNeverAValue ==
    /\ (Decoded /\ msg.fam = "tokens" /\ msg.closed
            /\ EndCollectionAsValue(msg.tokens)) =>
           resp = Err("ProtocolError")
    /\ (Decoded /\ resp.ok) =>
           \A g \in 1..Len(resp.attrs) :
               \A j \in 1..Len(resp.attrs[g][2]) :
                   ~HoldsEndCollection(resp.attrs[g][2][j][2])

\* A MemberAttrName followed by an EndCollection never makes the decoder
\* return a collection without that member: it fails or stores the
\* EndCollection.
EndCollectionAsValueNeverSkipped ==
    (Decoded /\ msg.fam = "tokens" /\ EndCollectionAsValue(msg.tokens)
        /\ resp.ok) =>
        HoldsEndCollection(resp.attrs[1][2][1][2])

\* The tokens leave one collection open: a BegCollection, then members of
\* a name and a plain value each, then possibly the name of one more.
IsPlainValue(t) == t[1] \in {"Keyword", "Uri"}
OpenCollection(ts) ==
    /\ Len(ts) >= 1
    /\ ts[1][1] = "BegCollection"
    /\ \A i \in 2..Len(ts) :
          IF i % 2 = 0 THEN ts[i][1] = "MemberAttrName" ELSE IsPlainValue(ts[i])
NameExpected(ts) == OpenCollection(ts) /\ Len(ts) % 2 = 1
ValueExpected(ts) == OpenCollection(ts) /\ Len(ts) % 2 = 0

\* C23: while a collection is open, a delimiter tag read where the name of
\* a member or the value of a member is expected makes the message decoder
\* return ProtocolError, whatever follows it, the end of the input
\* included.  The delimiter received is EndOfAttributesTag (0x03), the last
\* byte of the input.
C23_DelimiterInCollection ==
    (Decoded /\ msg.fam = "tokens" /\ msg.closed /\ OpenCollection(msg.tokens)) =>
        resp = Err("ProtocolError")

\* Where the name of a member is expected the delimiter gives ProtocolError.
DelimiterWhereNameExpected ==
    (Decoded /\ msg.fam = "tokens" /\ msg.closed /\ NameExpected(msg.tokens)) =>
        resp = Err("ProtocolError")

\* Where the value of a member is expected, EndOfAttributesTag at the end of
\* the input gives an error of the reader.
DelimiterWhereValueExpected ==
    (Decoded /\ msg.fam = "tokens" /\ msg.closed /\ ValueExpected(msg.tokens)) =>
        resp = Err("IOError")

\* C30: every VectorAttribute of a response returned has at least two
\* elements, all of one value tag: a named attribute followed by an
\* attribute with an empty name and another tag is never fused with it.
C30_VectorsOfOneTag ==
    (Decoded /\ resp.ok) =>
        \A g \in 1..Len(resp.attrs) :
            \A j \in 1..Len(resp.attrs[g][2]) :
                LET val == resp.attrs[g][2][j][2] IN
                Kind(val) = "VectorAttribute" =>
                    /\ Len(Payload(val)) >= 2
                    /\ \A i \in 1..Len(Payload(val)) :
                          Kind(Payload(val)[i]) = Kind(Payload(val)[1])

\* Every VectorAttribute of a response returned has at least two elements.
VectorsOfTwoOrMore ==
    (Decoded /\ resp.ok) =>
        \A g \in 1..Len(resp.attrs) :
            \A j \in 1..Len(resp.attrs[g][2]) :
                LET val == resp.attrs[g][2][j][2] IN
                Kind(val) = "VectorAttribute" => Len(Payload(val)) >= 2

\* The 2-byte length field at pos of the bytes, as the unsigned number a peer
\* wrote.
FieldAt(bytes, pos) == bytes[pos] * 256 + bytes[pos + 1]

\* Under SpecParse: the reader holds a name-length larger than the bytes
\* behind it; or a name of valid UTF-8 and then a value-length larger than
\* the bytes behind it.
NameEnd == 2 + FieldAt(wire, 1)
NameTooLong == Len(wire) >= 2 /\ NameEnd > Len(wire)
ValueEnd == NameEnd + 2 + FieldAt(wire, NameEnd + 1)
ValueTooLong ==
    /\ Len(wire) >= 2
    /\ NameEnd + 2 <= Len(wire)
    /\ Utf8Valid(SubSeq(wire, 3, NameEnd))
    /\ ValueEnd > Len(wire)

\* C24: when the name-length or the value-length read by parse_attribute is
\* larger than the bytes that remain, lengths with the sign bit set
\* (0x8000..0xFFFF) included, parse_attribute returns IOError and does not
\* abort; and a name and a value it returns are bytes of the input.
C24_OversizedLengthIsIOError ==
    pc = "attribute_parsed" =>
        /\ (NameTooLong \/ ValueTooLong) => resp = Err("IOError")
        /\ resp.ok =>
              /\ ValueEnd <= Len(wire)
              /\ resp.name = SubSeq(wire, 3, NameEnd)
              /\ Payload(resp.value) = SubSeq(wire, NameEnd + 3, ValueEnd)

\* The same for lengths without the sign bit (0..0x7FFF).
OversizedLengthBelow32768 ==
    pc = "attribute_parsed" =>
        /\ (NameTooLong /\ FieldAt(wire, 1) < 32768) => resp = Err("IOError")
        /\ (ValueTooLong /\ FieldAt(wire, NameEnd + 1) < 32768) =>
              resp = Err("IOError")
        /\ resp.ok =>
              /\ ValueEnd <= Len(wire)
              /\ resp.name = SubSeq(wire, 3, NameEnd)
              /\ Payload(resp.value) = SubSeq(wire, NameEnd + 3, ValueEnd)

\* A length with the sign bit set aborts the process.
NegativeLengthAborts ==
    pc = "attribute_parsed" =>
        /\ (NameTooLong /\ FieldAt(wire, 1) >= 32768) => resp = Err("panic")
        /\ (ValueTooLong /\ FieldAt(wire, NameEnd + 1) >= 32768) =>
              resp = Err("panic")

\* The payload of a value with a language, as the peer laid it out: the
\* length of the language at byte 1, the language, the length of the string,
\* the string.  Framed: both length fields lie in the payload and are
\* without the sign bit, and language and string lie in the payload.
LangEnd(buf) == 2 + FieldAt(buf, 1)
StringEnd(buf) == LangEnd(buf) + 2 + FieldAt(buf, LangEnd(buf) + 1)
Framed(buf) ==
    /\ Len(buf) >= 2
    /\ FieldAt(buf, 1) < 32768
    /\ LangEnd(buf) + 2 <= Len(buf)
    /\ FieldAt(buf, LangEnd(buf) + 1) < 32768
    /\ StringEnd(buf) <= Len(buf)
LangOf(buf) == SubSeq(buf, 3, LangEnd(buf))
StringOf(buf) == SubSeq(buf, LangEnd(buf) + 3, StringEnd(buf))

\* C25: a value of a string type whose bytes are not valid UTF-8, and a
\* value with a language whose language or string is not valid UTF-8, make
\* decode_attribute_value return ValueFormatError: it neither aborts nor
\* returns a value.
C25_InvalidUtf8IsValueFormatError ==
    pc = "value_decoded" =>
        /\ (msg \in StringTags /\ ~Utf8Valid(wire)) =>
              resp = Err("ValueFormatError")
        /\ (msg \in WithLanguageTags /\ Framed(wire) /\ StringEnd(wire) = Len(wire)
                /\ (~Utf8Valid(LangOf(wire)) \/ ~Utf8Valid(StringOf(wire)))) =>
              resp = Err("ValueFormatError")

\* The string types without a language reject invalid UTF-8 with
\* ValueFormatError.
InvalidUtf8WithoutLanguage ==
    (pc = "value_decoded" /\ msg \in StringTags /\ ~Utf8Valid(wire)) =>
        resp = Err("ValueFormatError")

\* With a language, invalid UTF-8 in either substring aborts the process.
InvalidUtf8WithLanguageAborts ==
    (pc = "value_decoded" /\ msg \in WithLanguageTags
        /\ Framed(wire) /\ StringEnd(wire) = Len(wire)
        /\ (~Utf8Valid(LangOf(wire)) \/ ~Utf8Valid(StringOf(wire)))) =>
        resp = Err("panic")

\* Under SpecParse: a name that is not valid UTF-8 gives ValueFormatError.
InvalidUtf8Name ==
    (pc = "attribute_parsed" /\ Len(wire) >= 2 /\ ~NameTooLong
        /\ ~Utf8Valid(SubSeq(wire, 3, NameEnd))) =>
        resp = Err("ValueFormatError")

\* C26: StringWithLanguage::parse_buffer accepts a payload only when
\* 2 + lang_len + 2 + str_len is the length of the payload; a shorter
\* payload, a payload with bytes behind the string and a negative lang_len
\* or str_len give ValueFormatError, with no arithmetic overflow and no
\* abort.  The substrings of the payloads judged are valid UTF-8 where they
\* are framed.
C26_ExactLengthAccepted ==
    (pc = "value_decoded" /\ msg \in WithLanguageTags) =>
        IF Framed(wire) /\ StringEnd(wire) = Len(wire)
        THEN (Utf8Valid(LangOf(wire)) /\ Utf8Valid(StringOf(wire))) =>
                 resp = [ok |-> TRUE,
                         value |-> Val(msg, <<LangOf(wire), StringOf(wire)>>)]
        ELSE (Framed(wire) =>
                 (Utf8Valid(LangOf(wire)) /\ Utf8Valid(StringOf(wire)))) =>
                 resp = Err("ValueFormatError")

\* A payload shorter than its length fields announce, neither negative,
\* gives ValueFormatError.
ShortPayloadRejected ==
    (/\ pc = "value_decoded" /\ msg \in WithLanguageTags
     /\ ~Framed(wire)
     /\ (Len(wire) >= 2 => FieldAt(wire, 1) < 32768)
     /\ ((Len(wire) >= 2 /\ LangEnd(wire) + 2 <= Len(wire)) =>
            FieldAt(wire, LangEnd(wire) + 1) < 32768)) =>
        resp = Err("ValueFormatError")

\* A payload with bytes behind the string is accepted, the bytes dropped.
TrailingBytesAccepted ==
    (pc = "value_decoded" /\ msg \in WithLanguageTags
        /\ Framed(wire) /\ StringEnd(wire) < Len(wire)
        /\ Utf8Valid(LangOf(wire)) /\ Utf8Valid(StringOf(wire))) =>
            resp = [ok |-> TRUE,
                    value |-> Val(msg, <<LangOf(wire), StringOf(wire)>>)]

\* A negative lang_len never decodes: the payload is rejected or the
\* process aborts.
NegativeLangLenNeverDecodes ==
    (pc = "value_decoded" /\ msg \in WithLanguageTags
        /\ Len(wire) >= 2 /\ FieldAt(wire, 1) >= 32768) =>
        ~resp.ok

\* A lang_len of -4 aborts the process in both builds: 2 + lang_len + 2
\* overflows, or wraps to 0 and the index 2 + lang_len is out of bounds.
LangLenMinusFourAborts ==
    (pc = "value_decoded" /\ msg \in WithLanguageTags
        /\ Len(wire) >= 2 /\ FieldAt(wire, 1) = 65532) =>
        resp = Err("panic")

\* C27: a Boolean value of one byte decodes to false for the byte 0 and to
\* true for the byte 1, and gives ProtocolError for every byte 2..255.
C27_BooleanByte ==
    (pc = "value_decoded" /\ msg = "Boolean" /\ Len(wire) = 1) =>
        resp = CASE wire[1] = 0 -> [ok |-> TRUE, value |-> Val("Boolean", FALSE)]
                 [] wire[1] = 1 -> [ok |-> TRUE, value |-> Val("Boolean", TRUE)]
                 [] OTHER -> Err("ProtocolError")

\* The bytes 0 and 1 decode to false and true.
BooleanZeroAndOne ==
    (pc = "value_decoded" /\ msg = "Boolean" /\ Len(wire) = 1 /\ wire[1] <= 1) =>
        resp = [ok |-> TRUE, value |-> Val("Boolean", wire[1] = 1)]

\* Every byte 2..255 decodes to false.
BooleanOtherBytesFalse ==
    (pc = "value_decoded" /\ msg = "Boolean" /\ Len(wire) = 1 /\ wire[1] >= 2) =>
        resp = [ok |-> TRUE, value |-> Val("Boolean", FALSE)]

\* The types of a fixed length and the length of each.
FixedLengthTags ==
    {"NoValue", "Integer", "Enum", "Boolean", "RangeOfInteger", "Resolution",
     "DateTime", "BegCollection", "EndCollection"}
RequiredLength(t) ==
    CASE t \in {"NoValue", "BegCollection", "EndCollection"} -> 0
      [] t \in {"Integer", "Enum"} -> 4
      [] t = "Boolean" -> 1
      [] t = "RangeOfInteger" -> 8
      [] t = "Resolution" -> 9
      [] t = "DateTime" -> 11

\* C28: a value of a type of fixed length whose payload has another length
\* than the type requires gives ProtocolError, for each of the nine types;
\* a payload of the required length decodes.
C28_FixedLengthOrProtocolError ==
    (pc = "value_decoded" /\ msg \in FixedLengthTags) =>
        IF Len(wire) = RequiredLength(msg) THEN resp.ok /\ Kind(resp.value) = msg
        ELSE resp = Err("ProtocolError")

\* A payload of another length than required never decodes, and one of the
\* required length does.
FixedLengthChecked ==
    (pc = "value_decoded" /\ msg \in FixedLengthTags) =>
        (resp.ok <=> Len(wire) = RequiredLength(msg))

\* The error is ValueFormatError for RangeOfInteger, Resolution and DateTime
\* and ProtocolError for the other six.
FixedLengthErrorKinds ==
    (pc = "value_decoded" /\ msg \in FixedLengthTags
        /\ Len(wire) # RequiredLength(msg)) =>
        resp = IF msg \in {"RangeOfInteger", "Resolution", "DateTime"}
               THEN Err("ValueFormatError") ELSE Err("ProtocolError")

\* The status codes of RFC 8011: the codes the enum StatusCode names, with
\* client-error-timeout 0x0405 and client-error-document-access-error 0x0412.
Rfc8011StatusCodes == {0, 1, 2} \cup (1024..1042) \cup (1280..1289)

\* C29: the message decoder accepts the status code of a response exactly
\* when it is a status code of RFC 8011, 0x0405 and 0x0412 among them; for
\* every other 16-bit value, 0x0045 and 0x4012 among them, it returns
\* ProtocolError.
C29_StatusCodesOfRfc8011 ==
    pc = "status_read" =>
        IF msg \in Rfc8011StatusCodes
        THEN resp.ok /\ resp.status_code = msg
        ELSE resp = Err("ProtocolError")

\* Apart from 0x0045, 0x0405, 0x0412 and 0x4012 the decoder accepts exactly
\* the status codes of RFC 8011.
StatusCodesApartFromFour ==
    (pc = "status_read" /\ msg \notin {69, 1029, 1042, 16402}) =>
        IF msg \in Rfc8011StatusCodes
        THEN resp.ok /\ resp.status_code = msg
        ELSE resp = Err("ProtocolError")

\* 0x0045 and 0x4012 are accepted, 0x0405 and 0x0412 rejected.
StatusCodesMistyped ==
    /\ (pc = "status_read" /\ msg \in {69, 16402}) =>
           resp.ok /\ resp.status_code = msg
    /\ (pc = "status_read" /\ msg \in {1029, 1042}) => resp = Err("ProtocolError")

====
